---- MODULE Spec2Model ----
(***************************************************************************)
(* ZIP Football Calculator (src/script.js).                                *)
(*                                                                         *)
(* The file holds two variants of the calculator script: lines 1-805       *)
(* (per-period margins, multi-cell selection, compound markets) and lines  *)
(* 807-1428 (one global margin, single-cell selection).  The variable      *)
(* `variant` says which of the two scripts the page has loaded.            *)
(*                                                                         *)
(* Numbers.  JavaScript numbers are modelled as exact rationals <<n, d>>   *)
(* in lowest terms with d > 0, so that equalities of the real-number       *)
(* algebra (sums to 1, products, quotients) are decided exactly.           *)
(* Math.exp, the one transcendental function of the program, is modelled   *)
(* by a table of rational lower approximations (ExpNeg).                   *)
(***************************************************************************)
EXTENDS Integers, Sequences, FiniteSets, TLC

\* ------------------------------------------------------------------------
\* Bounds of the model
\* ------------------------------------------------------------------------

\* Grid side of the model is MAX_GOALS + 1.  The source sets MAX_GOALS = 7
\* (script.js:13, :818); the model scales the grid down, every operator
\* below takes the grid size as the code does (a parameter or matrix.length).
MAX_GOALS == 1

\* ------------------------------------------------------------------------
\* Rational arithmetic
\* ------------------------------------------------------------------------

\* JavaScript null
Null == [null |-> TRUE]

Abs(x) == IF x < 0 THEN -x ELSE x

RECURSIVE GCD(_, _)
GCD(a, b) == IF b = 0 THEN a ELSE GCD(b, a % b)

\* n/d divided through by g, a common divisor of n and d
Reduce(n, d, g) == <<n \div g, d \div g>>

\* the rational n/d in lowest terms, d > 0
R(n, d) == Reduce(n, d, GCD(Abs(n), d))

Zero == <<0, 1>>
One == <<1, 1>>

\* x + y over the least common denominator, g = gcd of the denominators
RAddOver(x, y, g) ==
    R(x[1] * (y[2] \div g) + y[1] * (x[2] \div g), (x[2] \div g) * y[2])

RAdd(x, y) == RAddOver(x, y, GCD(x[2], y[2]))

RNeg(x) == <<-x[1], x[2]>>

RSub(x, y) == RAdd(x, RNeg(y))

\* x * y, cancelling g1 = gcd(x[1], y[2]) and g2 = gcd(y[1], x[2]) first
RMulOver(x, y, g1, g2) ==
    <<(x[1] \div g1) * (y[1] \div g2), (x[2] \div g2) * (y[2] \div g1)>>

RMul(x, y) == RMulOver(x, y, GCD(Abs(x[1]), y[2]), GCD(Abs(y[1]), x[2]))

\* x / y for y # 0
RDiv(x, y) ==
    RMul(x, IF y[1] < 0 THEN <<-y[2], -y[1]>> ELSE <<y[2], y[1]>>)

RLtOver(x, y, g) == x[1] * (y[2] \div g) < y[1] * (x[2] \div g)

RLt(x, y) == RLtOver(x, y, GCD(x[2], y[2]))

RLe(x, y) == ~RLt(y, x)

RECURSIVE RPow(_, _)
\* Math.pow(x, k) for an integer k >= 0; Math.pow(0, 0) = 1
RPow(x, k) == IF k = 0 THEN One ELSE RMul(x, RPow(x, k - 1))

\* TRUE for every value: used by the loops below to have an accumulator
\* computed at each iteration rather than at the end of the loop
Evaluated(v) == v = v

RECURSIVE RSum(_)
\* sum of a sequence of rationals
RSum(s) == IF s = <<>> THEN Zero ELSE RAdd(s[1], RSum(Tail(s)))

\* ------------------------------------------------------------------------
\* Constants & config
\* ------------------------------------------------------------------------

\* 0.5, 1.5, 2.5, 3.5, 4.5, 5.5
STANDARD_LINES == << <<1, 2>>, <<3, 2>>, <<5, 2>>, <<7, 2>>, <<9, 2>>, <<11, 2>> >>

LineSet == { <<1, 2>>, <<3, 2>>, <<5, 2>>, <<7, 2>>, <<9, 2>>, <<11, 2>> }

\* a comparison that also counts the total just below the line
OverFromBelow(total, line) == (total + 1) * line[2] > line[1]

\* total > line, for an integer total
Over(total, line) == total * line[2] > line[1]

\* ------------------------------------------------------------------------
\* Math model
\* ------------------------------------------------------------------------

factorialCache == <<1, 1, 2, 6, 24, 120, 720, 5040>>

RECURSIVE factorialLoop(_, _, _)
factorialLoop(res, i, n) ==
    IF i <= n THEN factorialLoop(res * i, i + 1, n) ELSE res

factorial(n) ==
    IF n < 0 THEN 1
    ELSE IF n < Len(factorialCache) THEN factorialCache[n + 1]
    ELSE factorialLoop(factorialCache[Len(factorialCache)],
                       Len(factorialCache), n)

\* Math.exp(-lambda): a rational lower approximation of e^(-lambda) on the
\* values of lambda the model's input fields can produce.
ExpTable ==
    <<  <<<<-1, 1>>, <<5, 2>>>>,
        <<<<0, 1>>,  <<1, 1>>>>,
        <<<<1, 2>>,  <<3, 5>>>>,
        <<<<1, 1>>,  <<1, 3>>>>,
        <<<<3, 2>>,  <<1, 5>>>>,
        <<<<2, 1>>,  <<1, 8>>>>,
        <<<<3, 1>>,  <<1, 24>>>> >>

ExpNeg(lambda) ==
    ExpTable[CHOOSE j \in 1..Len(ExpTable) : ExpTable[j][1] = lambda][2]

\* (Math.exp(-lambda) * Math.pow(lambda, k)) / factorial(k)
pStandardOf(lambda, k) ==
    RDiv(RMul(ExpNeg(lambda), RPow(lambda, k)), <<factorial(k), 1>>)

\* a mass that is inflated by pi at every k
pZipOfInflatedAll(pStandard, k, pi) == RAdd(pi, RMul(RSub(One, pi), pStandard))

\* the zero-inflated mass of k goals, from the Poisson mass pStandard
pZipOf(pStandard, k, pi) ==
    IF k = 0
    THEN RAdd(pi, RMul(RSub(One, pi), pStandard))
    ELSE RMul(RSub(One, pi), pStandard)

\* a result whose tail is the sum
pmfOfTailIsSum(probs, maxGoals) ==
    [probs |-> probs,
     tail |-> RSum([i \in 1..(maxGoals + 1) |-> probs[i - 1]])]

\* { probs, tail: 1 - sum } of the probs the loop has pushed
pmfOf(probs, maxGoals) ==
    [probs |-> probs,
     tail |-> RSub(One, RSum([i \in 1..(maxGoals + 1) |-> probs[i - 1]]))]

\* { probs, tail }: probs[k] for k in 0..maxGoals
computePoissonPMF(lambda, maxGoals, pi) ==
    pmfOf([k \in 0..maxGoals |-> pZipOf(pStandardOf(lambda, k), k, pi)], maxGoals)

\* the cells (h, a) of a size x size grid in the order of the nested loops
Cells(size) ==
    [i \in 1..(size * size) |-> <<(i - 1) \div size, (i - 1) % size>>]

\* total mass of the grid of a matrix
GridMass(matrix) ==
    RSum([i \in 1..(Cardinality(DOMAIN matrix) * Cardinality(DOMAIN matrix)) |->
            matrix[(i - 1) \div Cardinality(DOMAIN matrix)]
                  [(i - 1) % Cardinality(DOMAIN matrix)]])

\* a matrix with the two sides exchanged
jointMatrixSwapped(distH, distA, maxGoals) ==
    [i \in 0..maxGoals |->
        [j \in 0..maxGoals |-> RMul(distH.probs[j], distA.probs[i])]]

\* matrix[i][j] = distH.probs[i] * distA.probs[j]
jointMatrix(distH, distA, maxGoals) ==
    [i \in 0..maxGoals |->
        [j \in 0..maxGoals |-> RMul(distH.probs[i], distA.probs[j])]]

\* { matrix, tailProb: 1.0 - totalProb }
jointOf(matrix) == [matrix |-> matrix, tailProb |-> RSub(One, GridMass(matrix))]

\* { matrix, tailProb }; variant 2 returns distH and distA with them, which
\* no caller reads
computeJointDistribution(lambdaH, lambdaA, piH, piA, maxGoals) ==
    jointOf(jointMatrix(computePoissonPMF(lambdaH, maxGoals, piH),
                        computePoissonPMF(lambdaA, maxGoals, piA), maxGoals))

\* ------------------------------------------------------------------------
\* Market derivation
\* ------------------------------------------------------------------------

\* m.overs after the STANDARD_LINES.forEach of one cell: a line gets a key
\* once some cell's total exceeds it
oversAfter(overs, total, p) ==
    LET hit == {l \in LineSet : Over(total, l)}
    IN  [l \in (DOMAIN overs) \cup hit |->
            IF l \in hit
            THEN RAdd(IF l \in DOMAIN overs THEN overs[l] ELSE Zero, p)
            ELSE overs[l]]

\* markets.overs[line] || 0, as the callers read it
OversAt(markets, line) ==
    IF line \in DOMAIN markets.overs THEN markets.overs[line] ELSE Zero

\* a scan that counts the ties (h = a) as home wins
marketsCellTiesHome(m, h, a, p, maxTotal) ==
    [m EXCEPT
        !.map = (<<h, a>> :> p) @@ @,
        !.homeWin = IF h >= a THEN RAdd(@, p) ELSE @,
        !.awayWin = IF h < a THEN RAdd(@, p) ELSE @,
        !.bttsYes = IF h > 0 /\ a > 0 THEN RAdd(@, p) ELSE @,
        !.winToNilHome = IF h > 0 /\ a = 0 THEN RAdd(@, p) ELSE @,
        !.winToNilAway = IF a > 0 /\ h = 0 THEN RAdd(@, p) ELSE @,
        !.cleanSheetHome = IF a = 0 THEN RAdd(@, p) ELSE @,
        !.cleanSheetAway = IF h = 0 THEN RAdd(@, p) ELSE @,
        !.exactTotals = IF h + a <= maxTotal
                        THEN [@ EXCEPT ![h + a] = RAdd(@, p)] ELSE @,
        !.overs = oversAfter(@, h + a, p)]

\* a scan that counts 0-0 as a home win to nil
marketsCellNilNil(m, h, a, p, maxTotal) ==
    [m EXCEPT
        !.map = (<<h, a>> :> p) @@ @,
        !.homeWin = IF h > a THEN RAdd(@, p) ELSE @,
        !.draw = IF h = a THEN RAdd(@, p) ELSE @,
        !.awayWin = IF h < a THEN RAdd(@, p) ELSE @,
        !.bttsYes = IF h > 0 /\ a > 0 THEN RAdd(@, p) ELSE @,
        !.winToNilHome = IF a = 0 THEN RAdd(@, p) ELSE @,
        !.winToNilAway = IF a > 0 /\ h = 0 THEN RAdd(@, p) ELSE @,
        !.cleanSheetHome = IF a = 0 THEN RAdd(@, p) ELSE @,
        !.cleanSheetAway = IF h = 0 THEN RAdd(@, p) ELSE @,
        !.exactTotals = IF h + a <= maxTotal
                        THEN [@ EXCEPT ![h + a] = RAdd(@, p)] ELSE @,
        !.overs = oversAfter(@, h + a, p)]

\* the body of the nested loops of deriveMarkets for cell (h, a)
marketsCell(m, h, a, p, maxTotal) ==
    LET total == h + a
    IN  [m EXCEPT
            !.map = (<<h, a>> :> p) @@ @,
            !.homeWin = IF h > a THEN RAdd(@, p) ELSE @,
            !.draw = IF ~(h > a) /\ h = a THEN RAdd(@, p) ELSE @,
            !.awayWin = IF ~(h > a) /\ ~(h = a) THEN RAdd(@, p) ELSE @,
            !.bttsYes = IF h > 0 /\ a > 0 THEN RAdd(@, p) ELSE @,
            !.winToNilHome = IF h > 0 /\ a = 0 THEN RAdd(@, p) ELSE @,
            !.winToNilAway = IF a > 0 /\ h = 0 THEN RAdd(@, p) ELSE @,
            !.cleanSheetHome = IF a = 0 THEN RAdd(@, p) ELSE @,
            !.cleanSheetAway = IF h = 0 THEN RAdd(@, p) ELSE @,
            !.exactTotals = IF total <= maxTotal
                            THEN [@ EXCEPT ![total] = RAdd(@, p)] ELSE @,
            !.overs = oversAfter(@, total, p)]

RECURSIVE marketsLoop(_, _, _, _, _)
marketsLoop(m, matrix, cs, i, maxTotal) ==
    IF i > Len(cs) THEN m
    ELSE marketsLoop(
            marketsCell(m, cs[i][1], cs[i][2], matrix[cs[i][1]][cs[i][2]], maxTotal),
            matrix, cs, i + 1, maxTotal)

\* deriveMarkets up to the end of its scan of the grid (before bttsNo and
\* the normalisation of 1X2)
marketsScan(jointDist) ==
    LET matrix == jointDist.matrix
        size == Cardinality(DOMAIN matrix)
        maxTotal == (size - 1) * 2
        m0 == [homeWin |-> Zero, draw |-> Zero, awayWin |-> Zero,
               bttsYes |-> Zero, bttsNo |-> Zero,
               winToNilHome |-> Zero, winToNilAway |-> Zero,
               cleanSheetHome |-> Zero, cleanSheetAway |-> Zero,
               overs |-> <<>>,
               exactTotals |-> [t \in 0..maxTotal |-> Zero],
               map |-> <<>>]
    IN  marketsLoop(m0, matrix, Cells(size), 1, maxTotal)

\* if (sum1x2 > 0) { m.homeWin /= sum1x2; m.draw /= sum1x2; m.awayWin /= sum1x2 }
normalise1x2(m, sum1x2) ==
    IF RLt(Zero, sum1x2)
    THEN [m EXCEPT !.homeWin = RDiv(@, sum1x2),
                   !.draw = RDiv(@, sum1x2),
                   !.awayWin = RDiv(@, sum1x2)]
    ELSE m

\* a tail that computes bttsNo over the grid, as its mass less bttsYes
marketsFinishGridBtts(m) ==
    normalise1x2([m EXCEPT !.bttsNo = RSub(RAdd(RAdd(m.homeWin, m.draw), m.awayWin),
                                          m.bttsYes)],
                 RAdd(RAdd(m.homeWin, m.draw), m.awayWin))

\* the tail of deriveMarkets: bttsNo and the normalisation of 1X2
marketsFinish(m) ==
    normalise1x2([m EXCEPT !.bttsNo = RSub(One, m.bttsYes)],
                 RAdd(RAdd(m.homeWin, m.draw), m.awayWin))

deriveMarkets(jointDist) == marketsFinish(marketsScan(jointDist))

\* variant 2: the same scan without the "h-a" map
marketsCell2(m, h, a, p, maxTotal) ==
    LET total == h + a
    IN  [m EXCEPT
            !.homeWin = IF h > a THEN RAdd(@, p) ELSE @,
            !.draw = IF ~(h > a) /\ h = a THEN RAdd(@, p) ELSE @,
            !.awayWin = IF ~(h > a) /\ ~(h = a) THEN RAdd(@, p) ELSE @,
            !.bttsYes = IF h > 0 /\ a > 0 THEN RAdd(@, p) ELSE @,
            !.winToNilHome = IF h > 0 /\ a = 0 THEN RAdd(@, p) ELSE @,
            !.winToNilAway = IF a > 0 /\ h = 0 THEN RAdd(@, p) ELSE @,
            !.cleanSheetHome = IF a = 0 THEN RAdd(@, p) ELSE @,
            !.cleanSheetAway = IF h = 0 THEN RAdd(@, p) ELSE @,
            !.exactTotals = IF total <= maxTotal
                            THEN [@ EXCEPT ![total] = RAdd(@, p)] ELSE @,
            !.overs = oversAfter(@, total, p)]

RECURSIVE marketsLoop2(_, _, _, _, _)
marketsLoop2(m, matrix, cs, i, maxTotal) ==
    IF i > Len(cs) THEN m
    ELSE marketsLoop2(
            marketsCell2(m, cs[i][1], cs[i][2], matrix[cs[i][1]][cs[i][2]], maxTotal),
            matrix, cs, i + 1, maxTotal)

marketsScan2(jointDist) ==
    LET matrix == jointDist.matrix
        size == Cardinality(DOMAIN matrix)
        maxTotal == (size - 1) * 2
        m0 == [homeWin |-> Zero, draw |-> Zero, awayWin |-> Zero,
               bttsYes |-> Zero, bttsNo |-> Zero,
               winToNilHome |-> Zero, winToNilAway |-> Zero,
               cleanSheetHome |-> Zero, cleanSheetAway |-> Zero,
               overs |-> <<>>,
               exactTotals |-> [t \in 0..maxTotal |-> Zero]]
    IN  marketsLoop2(m0, matrix, Cells(size), 1, maxTotal)

marketsFinish2(m) ==
    normalise1x2([m EXCEPT !.bttsNo = RSub(One, m.bttsYes)],
                 RAdd(RAdd(m.homeWin, m.draw), m.awayWin))

deriveMarkets2(jointDist) == marketsFinish2(marketsScan2(jointDist))

\* 'H' / 'D' / 'A' of a scoreline
resultOf(h, a) == IF h > a THEN "H" ELSE IF h = a THEN "D" ELSE "A"

HtftKeys == {"H-H", "H-D", "H-A", "D-H", "D-D", "D-A", "A-H", "A-D", "A-A"}

\* an accumulation that leaves the under side out
htftAddOverOnly(acc, key, ftTotal, prob) ==
    [htft |-> [acc.htft EXCEPT ![key] = RAdd(@, prob)],
     htftGoals |->
        [l \in LineSet |->
            [acc.htftGoals[l] EXCEPT ![key] =
                IF Over(ftTotal, l)
                THEN [@ EXCEPT !.over = RAdd(@, prob)]
                ELSE @]]]

\* htft[key] += prob, and per line htftGoals[line][key].over / .under += prob
htftAdd(acc, key, ftTotal, prob) ==
    [htft |-> [acc.htft EXCEPT ![key] = RAdd(@, prob)],
     htftGoals |->
        [l \in LineSet |->
            [acc.htftGoals[l] EXCEPT ![key] =
                IF Over(ftTotal, l)
                THEN [@ EXCEPT !.over = RAdd(@, prob)]
                ELSE [@ EXCEPT !.under = RAdd(@, prob)]]]]

\* a body that adds the mass of the half-time score alone
htftCellFirstHalfMass(acc, c1, c2, pHT, p2H) ==
    htftAdd(acc,
            resultOf(c1[1], c1[2]) \o "-" \o resultOf(c1[1] + c2[1], c1[2] + c2[2]),
            c1[1] + c2[1] + c1[2] + c2[2],
            pHT)

\* the body of the innermost loop of deriveHalfTimeFullTime: half-time
\* score c1 of mass pHT, second-half score c2 of mass p2H
htftCell(acc, c1, c2, pHT, p2H) ==
    htftAdd(acc,
            resultOf(c1[1], c1[2]) \o "-" \o resultOf(c1[1] + c2[1], c1[2] + c2[2]),
            c1[1] + c2[1] + c1[2] + c2[2],
            RMul(pHT, p2H))

RECURSIVE htftInner(_, _, _, _, _, _)
RECURSIVE htftInnerNext(_, _, _, _, _, _)
\* the second-half loops; cells of mass 0 are skipped (continue)
htftInner(acc, c1, pHT, matrixH2, cs, j) ==
    IF j > Len(cs) THEN acc
    ELSE htftInnerNext(
            IF matrixH2[cs[j][1]][cs[j][2]] = Zero THEN acc
            ELSE htftCell(acc, c1, cs[j], pHT, matrixH2[cs[j][1]][cs[j][2]]),
            c1, pHT, matrixH2, cs, j)

htftInnerNext(next, c1, pHT, matrixH2, cs, j) ==
    IF Evaluated(next) THEN htftInner(next, c1, pHT, matrixH2, cs, j + 1) ELSE next

RECURSIVE htftOuter(_, _, _, _, _)
RECURSIVE htftOuterNext(_, _, _, _, _)
\* the first-half loops
htftOuter(acc, matrixH1, matrixH2, cs, i) ==
    IF i > Len(cs) THEN acc
    ELSE htftOuterNext(
            IF matrixH1[cs[i][1]][cs[i][2]] = Zero THEN acc
            ELSE htftInner(acc, cs[i], matrixH1[cs[i][1]][cs[i][2]], matrixH2, cs, 1),
            matrixH1, matrixH2, cs, i)

htftOuterNext(next, matrixH1, matrixH2, cs, i) ==
    IF Evaluated(next) THEN htftOuter(next, matrixH1, matrixH2, cs, i + 1) ELSE next

\* { htft, htftGoals }
deriveHalfTimeFullTime(jointH1, jointH2) ==
    LET size == Cardinality(DOMAIN jointH1.matrix)
        acc0 == [htft |-> [k \in HtftKeys |-> Zero],
                 htftGoals |-> [l \in LineSet |->
                                  [k \in HtftKeys |-> [over |-> Zero, under |-> Zero]]]]
    IN  htftOuter(acc0, jointH1.matrix, jointH2.matrix, Cells(size), 1)

RECURSIVE sortDescEqualsLast(_)
\* a descending sort that puts an element after the later elements equal to it
sortDescEqualsLast(s) ==
    IF Len(s) <= 1 THEN s
    ELSE LET rest == sortDescEqualsLast(Tail(s))
             k == Cardinality({i \in 1..Len(rest) : RLe(s[1].prob, rest[i].prob)})
         IN  SubSeq(rest, 1, k) \o <<s[1]>> \o SubSeq(rest, k + 1, Len(rest))

RECURSIVE sortDesc(_)
\* Array.prototype.sort((a, b) => b.prob - a.prob): stable, descending
sortDesc(s) ==
    IF Len(s) <= 1 THEN s
    ELSE LET rest == sortDesc(Tail(s))
             \* s[1] goes before the first element of rest that is not larger
             k == Cardinality({i \in 1..Len(rest) : RLt(s[1].prob, rest[i].prob)})
         IN  SubSeq(rest, 1, k) \o <<s[1]>> \o SubSeq(rest, k + 1, Len(rest))

\* total -> list of { score, prob }, each list sorted
deriveFinalScoreByGoals(jointDist) ==
    LET matrix == jointDist.matrix
        size == Cardinality(DOMAIN matrix)
        cs == Cells(size)
        pushed(t) == SelectSeq(
            [i \in 1..Len(cs) |-> [score |-> cs[i], prob |-> matrix[cs[i][1]][cs[i][2]]]],
            LAMBDA e : e.score[1] + e.score[2] = t)
    IN  [t \in 0..((size - 1) * 2) |-> sortDesc(pushed(t))]

\* a body that leaves the away wins out of '12'
dcCellHomeOnly12(dc, h, a, p) ==
    LET total == h + a
        add(e, l, on) ==
            IF ~on THEN e
            ELSE IF Over(total, l) THEN [e EXCEPT !.over = RAdd(@, p)]
            ELSE [e EXCEPT !.under = RAdd(@, p)]
    IN  [l \in LineSet |->
            [dc[l] EXCEPT !["1X"] = add(@, l, h >= a),
                          !["X2"] = add(@, l, h <= a),
                          !["12"] = add(@, l, h > a)]]

\* the body of the loops of deriveDoubleChanceGoals for cell (h, a)
dcCell(dc, h, a, p) ==
    LET total == h + a
        isHome == h > a
        isDraw == h = a
        isAway == h < a
        add(e, l, on) ==
            IF ~on THEN e
            ELSE IF Over(total, l) THEN [e EXCEPT !.over = RAdd(@, p)]
            ELSE [e EXCEPT !.under = RAdd(@, p)]
    IN  [l \in LineSet |->
            [dc[l] EXCEPT !["1X"] = add(@, l, isHome \/ isDraw),
                          !["X2"] = add(@, l, isDraw \/ isAway),
                          !["12"] = add(@, l, isHome \/ isAway)]]

RECURSIVE dcLoop(_, _, _, _)
dcLoop(dc, matrix, cs, i) ==
    IF i > Len(cs) THEN dc
    ELSE dcLoop(dcCell(dc, cs[i][1], cs[i][2], matrix[cs[i][1]][cs[i][2]]),
                matrix, cs, i + 1)

\* deriveDoubleChanceGoals(markets) scans appState.jointFull.matrix, the
\* global, not its argument; `app` is the appState at the time of the call
deriveDoubleChanceGoals(markets, app) ==
    LET matrix == app.jointFull.matrix
        size == Cardinality(DOMAIN matrix)
        dc0 == [l \in LineSet |->
                  [k \in {"1X", "X2", "12"} |-> [over |-> Zero, under |-> Zero]]]
    IN  dcLoop(dc0, matrix, Cells(size), 1)

\* the body of the loops of derive1X2Goals for cell (h, a)
r1x2Cell(rg, h, a, p) ==
    LET total == h + a
        who == IF h > a THEN "Home" ELSE IF h = a THEN "Draw" ELSE "Away"
    IN  [l \in LineSet |->
            [rg[l] EXCEPT ![who] =
                IF Over(total, l) THEN [@ EXCEPT !.over = RAdd(@, p)]
                ELSE [@ EXCEPT !.under = RAdd(@, p)]]]

RECURSIVE r1x2Loop(_, _, _, _)
r1x2Loop(rg, matrix, cs, i) ==
    IF i > Len(cs) THEN rg
    ELSE r1x2Loop(r1x2Cell(rg, cs[i][1], cs[i][2], matrix[cs[i][1]][cs[i][2]]),
                  matrix, cs, i + 1)

\* derive1X2Goals(markets) scans appState.jointFull.matrix as well
derive1X2Goals(markets, app) ==
    LET matrix == app.jointFull.matrix
        size == Cardinality(DOMAIN matrix)
        rg0 == [l \in LineSet |->
                  [k \in {"Home", "Draw", "Away"} |-> [over |-> Zero, under |-> Zero]]]
    IN  r1x2Loop(rg0, matrix, Cells(size), 1)

\* ------------------------------------------------------------------------
\* Margin / pricing
\* ------------------------------------------------------------------------

\* a map that scales to the target without dividing by the current sum
scaleToUnnormalised(probs, currentSum, targetSum) ==
    [i \in 1..Len(probs) |->
        IF currentSum = Zero THEN Zero ELSE RMul(probs[i], targetSum)]

\* a map that gives every outcome the target when the current sum is 0
scaleToTargetEach(probs, currentSum, targetSum) ==
    [i \in 1..Len(probs) |->
        IF currentSum = Zero THEN targetSum
        ELSE RMul(RDiv(probs[i], currentSum), targetSum)]

\* probs.map(p => (p / currentSum) * targetSum), all 0 if currentSum === 0
scaleTo(probs, currentSum, targetSum) ==
    [i \in 1..Len(probs) |->
        IF currentSum = Zero THEN Zero
        ELSE RMul(RDiv(probs[i], currentSum), targetSum)]

applyMargin(probs, marginPct) ==
    scaleTo(probs, RSum(probs), RAdd(One, RDiv(marginPct, <<100, 1>>)))

\* a price that is 0 only below 0.0001
getOddsBelow(prob) == IF RLt(prob, <<1, 10000>>) THEN Zero ELSE RDiv(One, prob)

getOdds(prob) == IF RLe(prob, <<1, 10000>>) THEN Zero ELSE RDiv(One, prob)

\* ------------------------------------------------------------------------
\* The rows of the markets: for each outcome the probability shown, the
\* adjusted probability and the odds shown for it (formatProb and
\* formatOddsVal print both with two decimals)
\* ------------------------------------------------------------------------

\* 1 / 0 of JavaScript
Infinity == <<1, 0>>

\* the row helper of the renderers
row(p, ap) == [prob |-> p, adjusted |-> ap, odds |-> getOdds(ap)]

\* the rows of a set of outcomes that one applyMargin call prices
rowsOf(probs, margin) ==
    [i \in 1..Len(probs) |-> row(probs[i], applyMargin(probs, margin)[i])]

\* p * (1 + margin/100)
inflate(p, margin) == RMul(p, RAdd(One, RDiv(margin, <<100, 1>>)))

rows1x2(markets, margin) ==
    rowsOf(<<markets.homeWin, markets.draw, markets.awayWin>>, margin)

rowsBtts(markets, margin) == rowsOf(<<markets.bttsYes, markets.bttsNo>>, margin)

\* the row of p that applyMargin([p, 1 - p], margin) prices
rowAgainstRest(p, margin) == SubSeq(rowsOf(<<p, RSub(One, p)>>, margin), 1, 1)

RECURSIVE goalLineRows(_, _, _)
\* STANDARD_LINES.forEach: Over and Under of each line, priced as a pair
goalLineRows(markets, margin, i) ==
    IF i > Len(STANDARD_LINES) THEN <<>>
    ELSE rowsOf(<<OversAt(markets, STANDARD_LINES[i]),
                  RSub(One, OversAt(markets, STANDARD_LINES[i]))>>, margin)
         \o goalLineRows(markets, margin, i + 1)

htftOrder == <<"H-H", "H-D", "H-A", "D-H", "D-D", "D-A", "A-H", "A-D", "A-A">>

RECURSIVE pairRows(_, _, _, _)
\* keys.forEach of the two "+ Goals" cards: Over and Under of each key of
\* the line's data, priced as a pair
pairRows(data, keys, margin, i) ==
    IF i > Len(keys) THEN <<>>
    ELSE rowsOf(<<data[keys[i]].over, data[keys[i]].under>>, margin)
         \o pairRows(data, keys, margin, i + 1)

RECURSIVE scoreRows(_, _, _, _)
\* renderScoresByGoals: per total the first ten scores of probability > 0.001
scoreRows(scoresByGoals, margin, total, maxGoals) ==
    IF total > maxGoals THEN <<>>
    ELSE LET sig == SelectSeq(scoresByGoals.entries[total],
                              LAMBDA e : RLt(<<1, 1000>>, e.prob))
             shown == SubSeq(sig, 1, IF Len(sig) < 10 THEN Len(sig) ELSE 10)
         IN  [i \in 1..Len(shown) |->
                 row(shown[i].prob, inflate(shown[i].prob, margin))]
             \o scoreRows(scoresByGoals, margin, total + 1, maxGoals)

\* the rows renderFullTimeMarketsToCards writes, card by card; maxGoals is
\* MAX_GOALS and `app` the appState at the time of the call
fullTimeRows(app, markets, margin, maxGoals) ==
    [basic |-> rows1x2(markets, margin) \o rowsBtts(markets, margin)
                \o rowAgainstRest(markets.winToNilHome, margin)
                \o goalLineRows(markets, margin, 1),
     htft |-> IF app.htftData # Null
              THEN rowsOf([i \in 1..Len(htftOrder) |->
                              app.htftData.htft[htftOrder[i]]], margin)
              ELSE <<>>,
     dcGoals |-> IF app.dcGoals # Null
                 THEN pairRows(app.dcGoals.entries[<<5, 2>>],
                               <<"1X", "X2", "12">>, margin, 1)
                 ELSE <<>>,
     resultGoals |-> IF app.result1X2Goals # Null
                     THEN pairRows(app.result1X2Goals.entries[<<5, 2>>],
                                   <<"Home", "Draw", "Away">>, margin, 1)
                     ELSE <<>>,
     goals |-> [t \in 1..(maxGoals + 1) |->
                  row(markets.exactTotals[t - 1],
                      inflate(markets.exactTotals[t - 1], margin))],
     scores |-> IF app.scoresByGoals # Null
                THEN scoreRows(app.scoresByGoals, margin, 0, maxGoals)
                ELSE <<>>]

\* the rows renderListMarkets of variant 1 writes
listRows(app, markets, context, margin, isFullTime, maxGoals) ==
    IF context = "summary"
    THEN [summary |-> rows1x2(markets, margin)
                      \o rowsOf(<<OversAt(markets, <<5, 2>>),
                                  RSub(One, OversAt(markets, <<5, 2>>))>>, margin)
                      \o rowsBtts(markets, margin)]
    ELSE IF isFullTime
    THEN fullTimeRows(app, markets, margin, maxGoals)
    ELSE [list |-> rows1x2(markets, margin) \o rowsBtts(markets, margin)
                   \o goalLineRows(markets, margin, 1)]

\* a row of the exact goals table of variant 2: 1 / (p / (1 + margin/100))
goalsRow2(p, margin) ==
    [prob |-> p,
     adjusted |-> RDiv(p, RAdd(One, RDiv(margin, <<100, 1>>))),
     odds |-> IF p = Zero THEN Infinity
              ELSE RDiv(One, RDiv(p, RAdd(One, RDiv(margin, <<100, 1>>))))]

\* the rows renderMarkets of variant 2 writes: summary-1x2 and the head of
\* the full-time tab, summary-ou, summary-btts, the tab and the goals table
marketsRows2(markets, context, margin, isFullTime, maxGoals) ==
    [summary1x2 |-> IF isFullTime THEN rows1x2(markets, margin) ELSE <<>>,
     summaryOu |-> IF context = "summary"
                   THEN rowsOf(<<OversAt(markets, <<5, 2>>),
                                 RSub(One, OversAt(markets, <<5, 2>>))>>, margin)
                   ELSE <<>>,
     summaryBtts |-> IF context = "summary" THEN rowsBtts(markets, margin) ELSE <<>>,
     tab |-> IF context = "summary" THEN <<>>
             ELSE rows1x2(markets, margin) \o rowsBtts(markets, margin)
                  \o goalLineRows(markets, margin, 1)
                  \o rowAgainstRest(markets.winToNilHome, margin)
                  \o rowAgainstRest(markets.cleanSheetHome, margin),
     goals |-> IF context # "summary" /\ isFullTime
               THEN [t \in 1..(maxGoals + 1) |->
                        goalsRow2(markets.exactTotals[t - 1], margin)]
               ELSE <<>>]

RECURSIVE sortedKeys(_)
\* Array.from(selSet).sort(...): by home goals, then by away goals
sortedKeys(selSet) ==
    IF selSet = {} THEN <<>>
    ELSE LET k == CHOOSE k \in selSet :
                    \A o \in selSet : k[1] < o[1] \/ (k[1] = o[1] /\ k[2] <= o[2])
         IN  <<k>> \o sortedKeys(selSet \ {k})

\* the panel of a period after updateSelectionPanel of variant 1, with
\* selSet = selections[period]: with no selection the panel is hidden (what
\* a hidden panel holds is not on display and is left out)
updateSelectionPanel(selSet, probabilityMap, margin) ==
    IF selSet = {}
    THEN [written |-> TRUE, hidden |-> TRUE]
    ELSE LET keys == sortedKeys(selSet)
             totalProb == RSum([i \in 1..Len(keys) |->
                                  IF keys[i] \in DOMAIN probabilityMap
                                  THEN probabilityMap[keys[i]] ELSE Zero])
         IN  [written |-> TRUE, hidden |-> FALSE,
              content |-> [count |-> Cardinality(selSet), prob |-> totalProb,
                           fair |-> getOdds(totalProb),
                           market |-> getOdds(inflate(totalProb, margin)),
                           list |-> keys]]

\* updateSelectionPanel of variant 2: the panel of the cell clicked
updateSelectionPanel2(homeGoals, awayGoals, prob, margin) ==
    [written |-> TRUE, hidden |-> FALSE,
     content |-> [score |-> <<homeGoals, awayGoals>>, prob |-> prob,
                  fair |-> getOdds(prob),
                  market |-> getOdds(inflate(prob, margin))]]

\* ------------------------------------------------------------------------
\* State
\* ------------------------------------------------------------------------

VARIABLES
    variant,    \* 1: the script of lines 1-805, 2: the script of lines 807-1428
    loaded,     \* DOMContentLoaded has fired (listeners installed)
    fields,     \* the values of the page's input fields
    appState,   \* the global appState of the loaded script
    dom,        \* what the script has rendered into the page
    calls,      \* arguments of the computeJointDistribution calls of the last handler
    edits,      \* number of field edits the user has made
    grid,       \* the argument of a deriveMarkets call (SpecMarkets)
    derived,    \* what that call has accumulated and returned (SpecMarkets)
    args,       \* the function and the arguments of a call (SpecCalls)
    returned,   \* the value that call has returned (SpecCalls)
    selections  \* the global selections: per period the cells selected

vars == <<variant, loaded, fields, appState, dom, calls, edits, grid, derived,
         args, returned, selections>>

\* number of field edits in a run of the model
MaxEdits == 2

\* ------------------------------------------------------------------------
\* Input handling & validation
\* ------------------------------------------------------------------------

\* data.isValid = false; data.errorMsg = msg
invalidate(data, msg) == [data EXCEPT !.isValid = FALSE, !.errorMsg = msg]

\* if (data.lambdaHomeFull < 0 || data.lambdaAwayFull < 0) invalid
checkRates(data, msg) ==
    IF RLt(data.lambdaHomeFull, Zero) \/ RLt(data.lambdaAwayFull, Zero)
    THEN invalidate(data, msg)
    ELSE data

\* the if (mode === 'xg') ... else ... block of getInputs
readRates(data, flds, msgXg, msgExp, msgNeg) ==
    IF flds.inputMode = "xg"
    THEN checkRates([data EXCEPT !.lambdaHomeFull = flds.xgHome,
                                 !.lambdaAwayFull = flds.xgAway], msgXg)
    ELSE IF RLe(flds.expectancy, Zero)
    THEN invalidate(data, msgExp)
    ELSE checkRates(
            [data EXCEPT
                !.lambdaHomeFull = RDiv(RAdd(flds.expectancy, flds.supremacy), <<2, 1>>),
                !.lambdaAwayFull = RDiv(RSub(flds.expectancy, flds.supremacy), <<2, 1>>)],
            msgNeg)

\* if (piHome < 0 || piHome > 1 || piAway < 0 || piAway > 1) invalid
checkPi(data, msg) ==
    IF RLt(data.piHome, Zero) \/ RLt(One, data.piHome)
       \/ RLt(data.piAway, Zero) \/ RLt(One, data.piAway)
    THEN invalidate(data, msg)
    ELSE data

\* the if (useZip) block of getInputs
readZip(data, flds, msg) ==
    IF flds.useZip
    THEN checkPi([data EXCEPT !.piHome = flds.piHome, !.piAway = flds.piAway], msg)
    ELSE data

\* if (margin < 0) margin = 0
clampMargin(m) == IF RLt(m, Zero) THEN Zero ELSE m

\* getInputs of variant 1.  flds holds the parsed numbers of the fields.
getInputs(flds) ==
    [readZip(
        readRates([lambdaHomeFull |-> Zero, lambdaAwayFull |-> Zero,
                   piHome |-> Zero, piAway |-> Zero,
                   halfFactor |-> flds.halfFactor,
                   marginFull |-> flds.marginFull,
                   marginH1 |-> flds.marginH1,
                   marginH2 |-> flds.marginH2,
                   isValid |-> TRUE, errorMsg |-> ""],
                  flds,
                  "xG values must be non-negative.",
                  "Total expectancy must be > 0.",
                  "Implied team goals negative."),
        flds, "Pi must be 0-1.")
     EXCEPT !.marginFull = clampMargin(@),
            !.marginH1 = clampMargin(@),
            !.marginH2 = clampMargin(@)]

\* getInputs of variant 2: one margin, marginPct
getInputs2(flds) ==
    [readZip(
        readRates([lambdaHomeFull |-> Zero, lambdaAwayFull |-> Zero,
                   piHome |-> Zero, piAway |-> Zero,
                   halfFactor |-> flds.halfFactor,
                   marginPct |-> flds.marginPct,
                   isValid |-> TRUE, errorMsg |-> ""],
                  flds,
                  "xG values must be non-negative.",
                  "Total expectancy must be greater than 0.",
                  "Implied team goals are negative. Check Supremacy vs Expectancy."),
        flds, "Pi (Zero-Inflation) must be between 0 and 1.")
     EXCEPT !.marginPct = clampMargin(@)]

\* ------------------------------------------------------------------------
\* Rendering
\*
\* The content of a page element is recorded as the data it was rendered
\* from and the margin that was applied to it: the rows of the element are
\* a function of the two (row, applyMargin, getOdds, formatProb,
\* formatOddsVal).  An element the script has not written yet is Unwritten.
\* The selection panel of a period is an element of dom as well: hidden or
\* not, with the figures updateSelectionPanel wrote last.
\* ------------------------------------------------------------------------

Unwritten == [written |-> FALSE]

Block(data, margin) == [written |-> TRUE, data |-> data, margin |-> margin]

\* a JavaScript object keyed by numbers
Obj(f) == [entries |-> f]

DomIds == {"summary", "basic-markets-full", "htft-markets-full", "dc-goals-full",
           "result-goals-full", "goals-full", "scores-by-goals-full",
           "markets-full", "markets-h1", "markets-h2",
           "cs-grid-full", "cs-grid-h1", "cs-grid-h2", "error-box",
           "selection-panel-full", "selection-panel-h1", "selection-panel-h2",
           "modeA-container", "modeB-container", "zip-inputs"}

\* renderScoresByGoals: per total 0..MAX_GOALS, the first ten scores of
\* probability > 0.001
renderScoresByGoals(d, scoresByGoals, margin) ==
    LET shown(t) == LET sig == SelectSeq(scoresByGoals.entries[t],
                                         LAMBDA e : RLt(<<1, 1000>>, e.prob))
                    IN  SubSeq(sig, 1, IF Len(sig) < 10 THEN Len(sig) ELSE 10)
    IN  [d EXCEPT !["scores-by-goals-full"] =
            Block([t \in 0..MAX_GOALS |-> shown(t)], margin)]

\* renderFullTimeMarketsToCards: the compound cards are read from the
\* global appState (`app` at the time of the call); a card whose data is
\* null is left as it was
renderFullTimeMarketsToCards(d, app, markets, margin) ==
    [d EXCEPT
        !["basic-markets-full"] = Block(markets, margin),
        !["htft-markets-full"] =
            IF app.htftData # Null THEN Block(app.htftData.htft, margin) ELSE @,
        !["dc-goals-full"] =
            IF app.dcGoals # Null
            THEN Block(app.dcGoals.entries[<<5, 2>>], margin) ELSE @,
        !["result-goals-full"] =
            IF app.result1X2Goals # Null
            THEN Block(app.result1X2Goals.entries[<<5, 2>>], margin) ELSE @,
        !["goals-full"] =
            Block([t \in 0..MAX_GOALS |-> markets.exactTotals[t]], margin),
        !["scores-by-goals-full"] =
            IF app.scoresByGoals # Null
            THEN renderScoresByGoals(d, app.scoresByGoals, margin)["scores-by-goals-full"]
            ELSE @]

\* renderListMarkets of variant 1
renderListMarkets(d, app, markets, context, margin, isFullTime) ==
    IF context = "summary"
    THEN [d EXCEPT !["summary"] = Block(markets, margin)]
    ELSE IF isFullTime
    THEN renderFullTimeMarketsToCards(d, app, markets, margin)
    ELSE [d EXCEPT ![IF context = "tab-h1" THEN "markets-h1" ELSE "markets-h2"] =
                Block(markets, margin)]

\* the periods of variant 1 with their tables and panels
Periods == {"full", "h1", "h2"}

GridId == [full |-> "cs-grid-full", h1 |-> "cs-grid-h1", h2 |-> "cs-grid-h2"]

PanelId == [full |-> "selection-panel-full", h1 |-> "selection-panel-h1",
            h2 |-> "selection-panel-h2"]

\* renderGrid of variant 1: the cells, the cells of class 'selected'
\* (those of selSet = selections[period]) and the tail warning (tail > 0.01)
renderGrid(d, tableId, jointDist, selSet) ==
    [d EXCEPT ![tableId] =
        [written |-> TRUE, data |-> jointDist.matrix, selected |-> selSet,
         warning |-> IF RLt(<<1, 100>>, jointDist.tailProb)
                     THEN jointDist.tailProb ELSE Zero]]

\* updateSelectionPanel(period, probabilityMap, margin) on the page
showSelection(d, sels, period, probabilityMap, margin) ==
    [d EXCEPT ![PanelId[period]] =
        updateSelectionPanel(sels[period], probabilityMap, margin)]

\* renderAllMarkets, "Full Time": summary, full-time cards and grid, from
\* marketsFull = deriveMarkets(appState.jointFull)
renderFullTime(st, marketsFull) ==
    [st EXCEPT !.dom =
        showSelection(
            renderGrid(
                renderListMarkets(
                    renderListMarkets(@, st.appState, marketsFull, "summary",
                                      st.appState.inputs.marginFull, TRUE),
                    st.appState, marketsFull, "tab-full",
                    st.appState.inputs.marginFull, TRUE),
                "cs-grid-full", st.appState.jointFull, st.selections.full),
            st.selections, "full", marketsFull.map, st.appState.inputs.marginFull)]

\* renderAllMarkets, "Calculate new combination markets"
deriveCombinations(st, marketsFull) ==
    [st EXCEPT !.appState =
        [@ EXCEPT
            !.htftData = deriveHalfTimeFullTime(st.appState.jointH1, st.appState.jointH2),
            !.scoresByGoals = Obj(deriveFinalScoreByGoals(st.appState.jointFull)),
            !.dcGoals = Obj(deriveDoubleChanceGoals(marketsFull, st.appState)),
            !.result1X2Goals = Obj(derive1X2Goals(marketsFull, st.appState))]]

\* the three statements of a half in renderAllMarkets, from the markets
\* of the half: renderListMarkets, renderGrid, updateSelectionPanel
renderHalf(st, markets, context, period, jointDist, margin) ==
    [st EXCEPT !.dom =
        showSelection(
            renderGrid(
                renderListMarkets(@, st.appState, markets, context, margin, FALSE),
                GridId[period], jointDist, st.selections[period]),
            st.selections, period, markets.map, margin)]

\* renderAllMarkets, "H1"
renderH1(st) ==
    renderHalf(st, deriveMarkets(st.appState.jointH1), "tab-h1", "h1",
               st.appState.jointH1, st.appState.inputs.marginH1)

\* renderAllMarkets, "H2"
renderH2(st) ==
    renderHalf(st, deriveMarkets(st.appState.jointH2), "tab-h2", "h2",
               st.appState.jointH2, st.appState.inputs.marginH2)

\* the statements of renderAllMarkets in their order
renderAllMarketsFrom(st, marketsFull) ==
    renderH2(renderH1(deriveCombinations(renderFullTime(st, marketsFull), marketsFull)))

\* renderAllMarkets of variant 1, on st = [appState, dom, calls]
renderAllMarkets(st) ==
    renderAllMarketsFrom(st, deriveMarkets(st.appState.jointFull))

\* renderMarkets of variant 2.  The containers of the half tabs are
\* appended to (innerHTML +=): `appended` says that older rows remain
\* above the block rendered last.
renderMarkets2(d, app, markets, context, margin, isFullTime) ==
    IF context = "summary"
    THEN [d EXCEPT !["summary"] = Block(markets, margin)]
    ELSE IF isFullTime
    THEN [d EXCEPT !["summary"] = Block(markets, margin),
                   !["markets-full"] = Block(markets, margin),
                   !["goals-full"] =
                        Block([t \in 0..MAX_GOALS |-> markets.exactTotals[t]], margin)]
    ELSE LET id == IF context = "tab-h1" THEN "markets-h1" ELSE "markets-h2"
         IN  [d EXCEPT ![id] = [written |-> TRUE, data |-> markets, margin |-> margin,
                                appended |-> d[id].written]]

\* renderGrid of variant 2: the click handlers of the cells capture margin
renderGrid2(d, tableId, jointDist, margin) ==
    [d EXCEPT ![tableId] =
        [written |-> TRUE, data |-> jointDist.matrix, margin |-> margin,
         warning |-> IF RLt(<<1, 100>>, jointDist.tailProb)
                     THEN jointDist.tailProb ELSE Zero]]

\* one tab of renderAllMarkets of variant 2: renderMarkets, then renderGrid
renderTab2(d, app, jointDist, context, tableId, isFullTime) ==
    renderGrid2(
        renderMarkets2(d, app, deriveMarkets2(jointDist), context,
                       app.inputs.marginPct, isFullTime),
        tableId, jointDist, app.inputs.marginPct)

\* renderAllMarkets of variant 2
renderAllMarkets2(st) ==
    [st EXCEPT !.dom =
        renderTab2(
            renderTab2(
                renderTab2(
                    renderMarkets2(@, st.appState, deriveMarkets2(st.appState.jointFull),
                                   "summary", st.appState.inputs.marginPct, TRUE),
                    st.appState, st.appState.jointFull, "tab-full", "cs-grid-full", TRUE),
                st.appState, st.appState.jointH1, "tab-h1", "cs-grid-h1", FALSE),
            st.appState, st.appState.jointH2, "tab-h2", "cs-grid-h2", FALSE)]

\* ------------------------------------------------------------------------
\* Calculations
\* ------------------------------------------------------------------------

\* the arguments of one computeJointDistribution call
CallOf(lambdaH, lambdaA, piH, piA) ==
    [lambdaH |-> lambdaH, lambdaA |-> lambdaA, piH |-> piH, piA |-> piA]

\* the first-half and second-half rates calculateAndRender derives from a
\* full-match rate (variant 1: factor and 1.0 - factor)
halfRates(lambda, halfFactor) ==
    [h1 |-> RMul(lambda, halfFactor), h2 |-> RMul(lambda, RSub(One, halfFactor))]

\* variant 2 scales both halves by the same factor
halfRates2(lambda, halfFactor) ==
    [h1 |-> RMul(lambda, halfFactor), h2 |-> RMul(lambda, halfFactor)]

showError(d, msg) == [d EXCEPT !["error-box"] = [hidden |-> FALSE, text |-> msg]]

hideError(d) == [d EXCEPT !["error-box"] = [@ EXCEPT !.hidden = TRUE]]

\* computeJointDistribution(..., MAX_GOALS) on the arguments c
jointOfCall(c) ==
    computeJointDistribution(c.lambdaH, c.lambdaA, c.piH, c.piA, MAX_GOALS)

\* the arguments of the three computeJointDistribution calls of variant 1:
\* full time, first half (factorH1), second half (1.0 - factorH1)
callsOf(inputs) ==
    << CallOf(inputs.lambdaHomeFull, inputs.lambdaAwayFull, inputs.piHome, inputs.piAway),
       CallOf(halfRates(inputs.lambdaHomeFull, inputs.halfFactor).h1,
              halfRates(inputs.lambdaAwayFull, inputs.halfFactor).h1,
              inputs.piHome, inputs.piAway),
       CallOf(halfRates(inputs.lambdaHomeFull, inputs.halfFactor).h2,
              halfRates(inputs.lambdaAwayFull, inputs.halfFactor).h2,
              inputs.piHome, inputs.piAway) >>

\* the same of variant 2: both halves by factor
callsOf2(inputs) ==
    << CallOf(inputs.lambdaHomeFull, inputs.lambdaAwayFull, inputs.piHome, inputs.piAway),
       CallOf(halfRates2(inputs.lambdaHomeFull, inputs.halfFactor).h1,
              halfRates2(inputs.lambdaAwayFull, inputs.halfFactor).h1,
              inputs.piHome, inputs.piAway),
       CallOf(halfRates2(inputs.lambdaHomeFull, inputs.halfFactor).h2,
              halfRates2(inputs.lambdaAwayFull, inputs.halfFactor).h2,
              inputs.piHome, inputs.piAway) >>

\* calculateAndRender after the validity check: the error box is hidden,
\* appState.inputs and the three joints are assigned
assignJoints(st, inputs, cs) ==
    [appState |-> [st.appState EXCEPT !.inputs = inputs,
                                      !.jointFull = jointOfCall(cs[1]),
                                      !.jointH1 = jointOfCall(cs[2]),
                                      !.jointH2 = jointOfCall(cs[3])],
     dom |-> hideError(st.dom),
     calls |-> cs,
     selections |-> st.selections]

\* a calculateAndRender that assigns appState.inputs before the validity check
calculateFromEager(st, inputs) ==
    IF ~inputs.isValid
    THEN [st EXCEPT !.appState.inputs = inputs,
                    !.dom = showError(st.dom, inputs.errorMsg), !.calls = <<>>]
    ELSE renderAllMarkets(assignJoints(st, inputs, callsOf(inputs)))

\* calculateAndRender of variant 1 from inputs = getInputs()
calculateFrom(st, inputs) ==
    IF ~inputs.isValid
    THEN [st EXCEPT !.dom = showError(st.dom, inputs.errorMsg), !.calls = <<>>]
    ELSE renderAllMarkets(assignJoints(st, inputs, callsOf(inputs)))

\* calculateAndRender of variant 1, on st = [appState, dom, calls]
calculateAndRender(st, flds) == calculateFrom(st, getInputs(flds))

calculateFrom2(st, inputs) ==
    IF ~inputs.isValid
    THEN [st EXCEPT !.dom = showError(st.dom, inputs.errorMsg), !.calls = <<>>]
    ELSE renderAllMarkets2(assignJoints(st, inputs, callsOf2(inputs)))

\* calculateAndRender of variant 2
calculateAndRender2(st, flds) == calculateFrom2(st, getInputs2(flds))

\* appState.inputs = getInputs(); if (appState.inputs.isValid) renderAllMarkets()
rerenderWith(st) ==
    IF st.appState.inputs.isValid THEN renderAllMarkets(st) ELSE st

\* a margin listener that runs the whole calculation again
marginListenerRecalculating(st, flds) ==
    [calculateAndRender(st, flds) EXCEPT !.calls = <<>>]

\* the 'input' listener of marginFull / marginH1 / marginH2 (variant 1)
marginListener(st, flds) ==
    IF st.appState.jointFull # Null
    THEN rerenderWith([st EXCEPT !.appState.inputs = getInputs(flds), !.calls = <<>>])
    ELSE [st EXCEPT !.calls = <<>>]

\* the 'input' listener of marginPct (variant 2)
marginListener2(st, flds) ==
    IF st.appState.jointFull # Null
    THEN renderAllMarkets2([st EXCEPT !.calls = <<>>])
    ELSE [st EXCEPT !.calls = <<>>]

\* dist of td.onclick and margin of td.onclick, by period
jointOfPeriod(app, period) ==
    IF period = "full" THEN app.jointFull
    ELSE IF period = "h1" THEN app.jointH1 ELSE app.jointH2

marginOfPeriod(inputs, period) ==
    IF period = "full" THEN inputs.marginFull
    ELSE IF period = "h1" THEN inputs.marginH1 ELSE inputs.marginH2

\* selections[period] after has(key) ? delete(key) : add(key)
toggled(selSet, key) == IF key \in selSet THEN selSet \ {key} ELSE selSet \cup {key}

\* a clearSelection that clears the sets of all periods
clearSelectionAll(st, period) ==
    [st EXCEPT
        !.selections = [p \in Periods |-> {}],
        !.dom = [@ EXCEPT ![GridId[period]] =
                               IF @.written THEN [@ EXCEPT !.selected = {}] ELSE @,
                           ![PanelId[period]] = [written |-> TRUE, hidden |-> TRUE]],
        !.calls = <<>>]

\* window.clearSelection(period)
clearSelection(st, period) ==
    [st EXCEPT
        !.selections = [@ EXCEPT ![period] = {}],
        !.dom = [@ EXCEPT ![GridId[period]] =
                               IF @.written THEN [@ EXCEPT !.selected = {}] ELSE @,
                           ![PanelId[period]] = [written |-> TRUE, hidden |-> TRUE]],
        !.calls = <<>>]

\* td.onclick of cell key of the grid of period, m = deriveMarkets(dist)
clickedWith(st, period, key, m) ==
    [st EXCEPT
        !.selections = [@ EXCEPT ![period] = toggled(@, key)],
        !.dom = showSelection(
                    [@ EXCEPT ![GridId[period]] =
                                  [@ EXCEPT !.selected = toggled(@, key)]],
                    [st.selections EXCEPT ![period] = toggled(@, key)],
                    period, m.map, marginOfPeriod(st.appState.inputs, period)),
        !.calls = <<>>]

\* td.onclick
tdOnclick(st, period, key) ==
    clickedWith(st, period, key,
                deriveMarkets(jointOfPeriod(st.appState, period)))

\* toggleInputMode: which of the two input containers is active
toggleInputMode(d, mode) ==
    [d EXCEPT !["modeA-container"] = [active |-> mode = "xg"],
              !["modeB-container"] = [active |-> mode # "xg"]]

\* toggleZipInputs: the pi inputs are disabled unless ZIP is enabled
toggleZipInputs(d, enabled) ==
    [d EXCEPT !["zip-inputs"] = [disabled |-> ~enabled]]

\* ------------------------------------------------------------------------
\* The page and its user
\* ------------------------------------------------------------------------

\* values the user types into the number fields
FieldVals ==
    [xgHome |-> {<<-2, 1>>, <<0, 1>>, <<2, 1>>},
     xgAway |-> {<<0, 1>>, <<2, 1>>},
     supremacy |-> {<<0, 1>>, <<8, 1>>},
     expectancy |-> {<<0, 1>>, <<4, 1>>},
     piHome |-> {<<1, 2>>, <<3, 2>>},
     halfFactor |-> {<<1, 4>>, <<1, 2>>, <<3, 2>>}]

NumberFields == DOMAIN FieldVals

\* values the user types into the margin fields
MarginVals ==
    [marginFull |-> {<<-5, 1>>, <<0, 1>>, <<10, 1>>},
     marginH1 |-> {<<0, 1>>, <<10, 1>>},
     marginH2 |-> {<<0, 1>>, <<10, 1>>}]

MarginFields == DOMAIN MarginVals

MarginPctVals == {<<-5, 1>>, <<0, 1>>, <<10, 1>>}

\* the field values of the page as served
PageFields ==
    [inputMode |-> "xg", useZip |-> FALSE,
     xgHome |-> <<2, 1>>, xgAway |-> <<2, 1>>,
     supremacy |-> <<0, 1>>, expectancy |-> <<4, 1>>,
     piHome |-> <<1, 2>>, piAway |-> <<1, 2>>,
     halfFactor |-> <<1, 2>>,
     marginFull |-> <<0, 1>>, marginH1 |-> <<0, 1>>, marginH2 |-> <<0, 1>>,
     marginPct |-> <<0, 1>>]

\* let appState = { ... all null ... }
AppState0(v) ==
    IF v = 1
    THEN [jointFull |-> Null, jointH1 |-> Null, jointH2 |-> Null, inputs |-> Null,
          htftData |-> Null, scoresByGoals |-> Null, dcGoals |-> Null,
          result1X2Goals |-> Null]
    ELSE [jointFull |-> Null, jointH1 |-> Null, jointH2 |-> Null, inputs |-> Null]

Dom0 ==
    [id \in DomIds |->
        CASE id = "error-box" -> [hidden |-> TRUE, text |-> ""]
          [] id = "modeA-container" -> [active |-> TRUE]
          [] id = "modeB-container" -> [active |-> FALSE]
          [] id = "zip-inputs" -> [disabled |-> TRUE]
          [] OTHER -> Unwritten]

\* const selections = { full: new Set(), h1: new Set(), h2: new Set() }
\* (variant 1; variant 2 has no such global)
Selections0(v) == IF v = 1 THEN [p \in Periods |-> {}] ELSE Null

St == [appState |-> appState, dom |-> dom, calls |-> calls,
       selections |-> selections]

Becomes(st) ==
    /\ appState' = st.appState
    /\ dom' = st.dom
    /\ calls' = st.calls
    /\ selections' = st.selections

Init ==
    /\ variant \in {1, 2}
    /\ loaded = FALSE
    /\ fields = PageFields
    /\ appState = AppState0(variant)
    /\ dom = Dom0
    /\ selections = Selections0(variant)
    /\ calls = <<>>
    /\ edits = 0
    /\ grid = Null
    /\ derived = Null
    /\ args = Null
    /\ returned = Null

\* DOMContentLoaded: initEventListeners(); calculateAndRender()
Load ==
    /\ ~loaded
    /\ loaded' = TRUE
    /\ Becomes(IF variant = 1 THEN calculateAndRender(St, fields)
               ELSE calculateAndRender2(St, fields))
    /\ UNCHANGED <<grid, derived, args, returned, variant, fields, edits>>

\* click on calcBtn
ClickCalculate ==
    /\ loaded
    /\ Becomes(IF variant = 1 THEN calculateAndRender(St, fields)
               ELSE calculateAndRender2(St, fields))
    /\ UNCHANGED <<grid, derived, args, returned, variant, loaded, fields, edits>>

\* the user types a value into a number field (no listener)
EditNumber(name, value) ==
    /\ loaded
    /\ edits < MaxEdits
    /\ fields[name] # value
    /\ fields' = [fields EXCEPT ![name] = value]
    /\ edits' = edits + 1
    /\ UNCHANGED <<selections, grid, derived, args, returned, variant, loaded, appState, dom, calls>>

\* 'change' of the inputMode radios
ChangeInputMode(mode) ==
    /\ loaded
    /\ edits < MaxEdits
    /\ fields.inputMode # mode
    /\ fields' = [fields EXCEPT !.inputMode = mode]
    /\ dom' = toggleInputMode(dom, mode)
    /\ edits' = edits + 1
    /\ UNCHANGED <<selections, grid, derived, args, returned, variant, loaded, appState, calls>>

\* 'change' of the useZip checkbox
ChangeUseZip(checked) ==
    /\ loaded
    /\ edits < MaxEdits
    /\ fields.useZip # checked
    /\ fields' = [fields EXCEPT !.useZip = checked]
    /\ dom' = toggleZipInputs(dom, checked)
    /\ edits' = edits + 1
    /\ UNCHANGED <<selections, grid, derived, args, returned, variant, loaded, appState, calls>>

\* 'input' on marginFull / marginH1 / marginH2 (variant 1)
MarginInput(id, value) ==
    /\ loaded
    /\ variant = 1
    /\ edits < MaxEdits
    /\ fields[id] # value
    /\ fields' = [fields EXCEPT ![id] = value]
    /\ Becomes(marginListener(St, fields'))
    /\ edits' = edits + 1
    /\ UNCHANGED <<grid, derived, args, returned, variant, loaded>>

\* 'input' on marginPct (variant 2)
MarginInput2(value) ==
    /\ loaded
    /\ variant = 2
    /\ edits < MaxEdits
    /\ fields.marginPct # value
    /\ fields' = [fields EXCEPT !.marginPct = value]
    /\ Becomes(marginListener2(St, fields'))
    /\ edits' = edits + 1
    /\ UNCHANGED <<grid, derived, args, returned, variant, loaded>>

\* the cells of the grids that the user clicks
ClickCells == {<<0, 0>>, <<0, 1>>}

\* click on cell key of the correct-score grid of period (variant 1); the
\* grid has cells once renderGrid has run
ClickCell(period, key) ==
    /\ loaded
    /\ variant = 1
    /\ dom[GridId[period]].written
    /\ Becomes(tdOnclick(St, period, key))
    /\ UNCHANGED <<grid, derived, args, returned, variant, loaded, fields, edits>>

\* click on the Clear button of the selection panel of period (variant 1)
ClearSelection(period) ==
    /\ loaded
    /\ variant = 1
    /\ Becomes(clearSelection(St, period))
    /\ UNCHANGED <<grid, derived, args, returned, variant, loaded, fields, edits>>

Next ==
    \/ Load
    \/ ClickCalculate
    \/ \E name \in NumberFields : \E value \in FieldVals[name] : EditNumber(name, value)
    \/ \E mode \in {"xg", "supexp"} : ChangeInputMode(mode)
    \/ \E checked \in BOOLEAN : ChangeUseZip(checked)
    \/ \E id \in MarginFields : \E value \in MarginVals[id] : MarginInput(id, value)
    \/ \E value \in MarginPctVals : MarginInput2(value)

Spec == Init /\ [][Next]_vars

\* the page of variant 1 with its correct-score grids: the scoring fields
\* stay as served, the user calculates, changes margins, clicks cells of
\* the grids and clears selections
InitSelections == Init /\ variant = 1

NextSelections ==
    \/ Load
    \/ ClickCalculate
    \/ \E id \in MarginFields : \E value \in MarginVals[id] : MarginInput(id, value)
    \/ \E period \in Periods : \E key \in ClickCells : ClickCell(period, key)
    \/ \E period \in Periods : ClearSelection(period)

SpecSelections == InitSelections /\ [][NextSelections]_vars

\* ------------------------------------------------------------------------
\* Properties of the page
\* ------------------------------------------------------------------------

\* getInputs() of the loaded script on the fields as they are
Inputs == IF variant = 1 THEN getInputs(fields) ELSE getInputs2(fields)

\* the last handler was a calculateAndRender that passed the validity check
Calculated == calls # <<>>

\* a step of a margin 'input' event
MarginStep ==
    IF variant = 1
    THEN \E id \in MarginFields : fields'[id] # fields[id]
    ELSE fields'.marginPct # fields.marginPct

\* a step of calculateAndRender (DOMContentLoaded or the Calculate button)
CalculateStep == fields' = fields

\* C1: in variant 1, after a calculateAndRender with valid inputs the
\* compound cards on display (HT/FT, double chance + goals, 1X2 + goals,
\* scores by goals) are the ones derived from the joints of that calculation
C1_CompoundOfThisCalculation ==
    (variant = 1 /\ Calculated) =>
        /\ dom["htft-markets-full"] =
                Block(deriveHalfTimeFullTime(appState.jointH1, appState.jointH2).htft,
                      appState.inputs.marginFull)
        /\ dom["dc-goals-full"] =
                Block(deriveDoubleChanceGoals(deriveMarkets(appState.jointFull),
                                              appState)[<<5, 2>>],
                      appState.inputs.marginFull)
        /\ dom["result-goals-full"] =
                Block(derive1X2Goals(deriveMarkets(appState.jointFull),
                                     appState)[<<5, 2>>],
                      appState.inputs.marginFull)
        /\ dom["scores-by-goals-full"] =
                renderScoresByGoals(dom, Obj(deriveFinalScoreByGoals(appState.jointFull)),
                                    appState.inputs.marginFull)["scores-by-goals-full"]

\* the margins of the prices on display are those of the margin fields,
\* negative values clamped to 0
MarginsOfFields ==
    IF variant = 1
    THEN /\ dom["summary"].margin = clampMargin(fields.marginFull)
         /\ dom["basic-markets-full"].margin = clampMargin(fields.marginFull)
         /\ dom["markets-h1"].margin = clampMargin(fields.marginH1)
         /\ dom["markets-h2"].margin = clampMargin(fields.marginH2)
    ELSE /\ dom["summary"].margin = clampMargin(fields.marginPct)
         /\ dom["markets-full"].margin = clampMargin(fields.marginPct)
         /\ dom["markets-h1"].margin = clampMargin(fields.marginPct)
         /\ dom["markets-h2"].margin = clampMargin(fields.marginPct)

\* C2: after a successful calculation, every 'input' event on a margin
\* field has the prices on display recomputed with the margin now in the
\* field (negative values clamped to 0), in both variants
C2_MarginInputReprices ==
    [][(MarginStep /\ appState.jointFull # Null) => MarginsOfFields']_vars

\* C3: a margin 'input' event leaves appState.jointFull, jointH1 and
\* jointH2 as the last successful calculateAndRender built them
C3_MarginKeepsJoints ==
    [][MarginStep =>
        /\ appState'.jointFull = appState.jointFull
        /\ appState'.jointH1 = appState.jointH1
        /\ appState'.jointH2 = appState.jointH2]_vars

\* a margin event has re-rendered joints that an earlier calculation built
\* from other scoring fields than the page now holds
C3_Witness ==
    /\ appState.jointFull # Null
    /\ calls = <<>>
    /\ dom["error-box"].hidden
    /\ \E id \in {"marginFull", "marginPct"} : fields[id] = <<10, 1>>
    /\ dom["summary"].written
    /\ fields.xgHome # PageFields.xgHome

\* C4: a successful calculateAndRender with split factor f builds the
\* first half from (lambda_home * f, lambda_away * f) and the second half
\* from (lambda_home * (1 - f), lambda_away * (1 - f)), in both variants,
\* so that the two half rates of a side add up to its full rate
C4_HalvesSplitTheRate ==
    Calculated =>
        /\ calls[2].lambdaH = RMul(appState.inputs.lambdaHomeFull, appState.inputs.halfFactor)
        /\ calls[2].lambdaA = RMul(appState.inputs.lambdaAwayFull, appState.inputs.halfFactor)
        /\ calls[3].lambdaH = RMul(appState.inputs.lambdaHomeFull,
                                   RSub(One, appState.inputs.halfFactor))
        /\ calls[3].lambdaA = RMul(appState.inputs.lambdaAwayFull,
                                   RSub(One, appState.inputs.halfFactor))
        /\ RAdd(calls[2].lambdaH, calls[3].lambdaH) = calls[1].lambdaH
        /\ RAdd(calls[2].lambdaA, calls[3].lambdaA) = calls[1].lambdaA

\* C5: when getInputs reports isValid = false, calculateAndRender shows the
\* error and returns: appState (inputs and the three joints) is as before
\* the call, no distribution is built and no market is rendered again
C5_InvalidInputsChangeNothing ==
    [][(CalculateStep /\ ~Inputs.isValid) =>
        /\ appState' = appState
        /\ calls' = <<>>
        /\ \A id \in DomIds \ {"error-box"} : dom'[id] = dom[id]
        /\ dom'["error-box"] = [hidden |-> FALSE, text |-> Inputs.errorMsg]]_vars

\* the error is on display over the markets of an earlier calculation
C5_Witness ==
    /\ ~Inputs.isValid
    /\ ~dom["error-box"].hidden
    /\ dom["error-box"].text = Inputs.errorMsg
    /\ appState.jointFull # Null
    /\ appState.inputs.isValid
    /\ dom["summary"].written

\* C6: every computePoissonPMF call of calculateAndRender gets lambda >= 0
\* and 0 <= pi <= 1, whatever valid values the fields hold, the half
\* factor included
C6_RatesInRange ==
    \A i \in 1..Len(calls) :
        /\ RLe(Zero, calls[i].lambdaH)
        /\ RLe(Zero, calls[i].lambdaA)
        /\ RLe(Zero, calls[i].piH) /\ RLe(calls[i].piH, One)
        /\ RLe(Zero, calls[i].piA) /\ RLe(calls[i].piA, One)

\* C7: getInputs marks the inputs invalid whenever lambda_home + lambda_away
\* is not positive, in both input modes, so that no calculation runs with a
\* total expectancy <= 0
C7_NoCalculationWithoutGoals ==
    /\ RLe(RAdd(Inputs.lambdaHomeFull, Inputs.lambdaAwayFull), Zero) => ~Inputs.isValid
    /\ Calculated => RLt(Zero, RAdd(calls[1].lambdaH, calls[1].lambdaA))

\* C23: in variant 1, the scoring fields of appState.inputs
\* (lambdaHomeFull, lambdaAwayFull, piHome, piAway, halfFactor) are those
\* the current appState.jointFull, jointH1 and jointH2 were built from, and
\* appState.inputs.isValid is true whenever the joints are not null
C23_InputsOfTheJoints ==
    (variant = 1 /\ appState.jointFull # Null) =>
        /\ appState.inputs.isValid
        /\ appState.jointFull = jointOfCall(callsOf(appState.inputs)[1])
        /\ appState.jointH1 = jointOfCall(callsOf(appState.inputs)[2])
        /\ appState.jointH2 = jointOfCall(callsOf(appState.inputs)[3])

\* ------------------------------------------------------------------------
\* deriveMarkets as a function of its argument
\* ------------------------------------------------------------------------

\* the grids of SpecMarkets have side GridGoals + 1
GridGoals == 2

\* number of cells of non-zero mass in a sparse grid of SpecMarkets
MaxCells == 3

GridCells == (0..GridGoals) \X (0..GridGoals)

\* the mass a grid of SpecMarkets puts on cell (h, a) when it is not 0:
\* a different power of 1/2 for every cell
CellMass(h, a) == <<1, 2 ^ (h * (GridGoals + 1) + a + 2)>>

\* the matrix with mass on the cells of S
GridOn(S) ==
    [h \in 0..GridGoals |->
        [a \in 0..GridGoals |-> IF <<h, a>> \in S THEN CellMass(h, a) ELSE Zero]]

\* the arguments of deriveMarkets: the sparse grids and the full grid
Grids ==
    {jointOf(GridOn(S)) :
        S \in {T \in SUBSET GridCells : Cardinality(T) <= MaxCells \/ T = GridCells}}

InitMarkets ==
    /\ variant \in {1, 2}
    /\ loaded = FALSE
    /\ fields = PageFields
    /\ appState = AppState0(variant)
    /\ dom = Dom0
    /\ selections = Selections0(variant)
    /\ calls = <<>>
    /\ edits = 0
    /\ grid \in Grids
    /\ derived = Null
    /\ args = Null
    /\ returned = Null

\* deriveMarkets(jointDist) of variant 1: scan is m at the end of the
\* loops, markets the returned object
DeriveMarkets ==
    /\ variant = 1
    /\ derived = Null
    /\ derived' = [scan |-> marketsScan(grid), markets |-> deriveMarkets(grid)]
    /\ UNCHANGED <<selections, variant, loaded, fields, appState, dom, calls, edits, grid,
                   args, returned>>

\* deriveMarkets(jointDist) of variant 2
DeriveMarkets2 ==
    /\ variant = 2
    /\ derived = Null
    /\ derived' = [scan |-> marketsScan2(grid), markets |-> deriveMarkets2(grid)]
    /\ UNCHANGED <<selections, variant, loaded, fields, appState, dom, calls, edits, grid,
                   args, returned>>

NextMarkets == DeriveMarkets \/ DeriveMarkets2

SpecMarkets == InitMarkets /\ [][NextMarkets]_vars

\* the mass of the cells (h, a) of a matrix that satisfy Test
MassWhere(matrix, Test(_, _)) ==
    RSum([i \in 1..Len(SelectSeq(Cells(Cardinality(DOMAIN matrix)),
                                LAMBDA c : Test(c[1], c[2]))) |->
            matrix[SelectSeq(Cells(Cardinality(DOMAIN matrix)),
                             LAMBDA c : Test(c[1], c[2]))[i][1]]
                  [SelectSeq(Cells(Cardinality(DOMAIN matrix)),
                             LAMBDA c : Test(c[1], c[2]))[i][2]]])

IsHome(h, a) == h > a
IsDraw(h, a) == h = a
IsAway(h, a) == h < a

\* C8: for every joint matrix of grid mass > 0 deriveMarkets returns
\* homeWin + draw + awayWin = 1, and for every joint matrix it returns
\* bttsYes + bttsNo = 1 with bttsNo = 1 - bttsYes (not the grid's complement)
C8_SumsToOne ==
    derived # Null =>
        /\ RLt(Zero, GridMass(grid.matrix)) =>
                RAdd(RAdd(derived.markets.homeWin, derived.markets.draw),
                     derived.markets.awayWin) = One
        /\ RAdd(derived.markets.bttsYes, derived.markets.bttsNo) = One
        /\ derived.markets.bttsNo = RSub(One, derived.scan.bttsYes)

\* a grid of mass > 0 and < 1 has been derived, with cells on both sides of BTTS
C8_Witness ==
    /\ derived # Null
    /\ RLt(Zero, GridMass(grid.matrix))
    /\ RLt(GridMass(grid.matrix), One)
    /\ RLt(Zero, derived.markets.bttsYes)
    /\ RLt(derived.markets.bttsYes, GridMass(grid.matrix))

\* C9: every cell is in exactly one of Home (h > a), Draw (h = a), Away
\* (h < a): before the normalisation the three masses are the masses of the
\* three classes and add up to the grid mass, after it each is its class
\* mass divided by the grid mass
C9_Classes ==
    derived # Null =>
        /\ derived.scan.homeWin = MassWhere(grid.matrix, IsHome)
        /\ derived.scan.draw = MassWhere(grid.matrix, IsDraw)
        /\ derived.scan.awayWin = MassWhere(grid.matrix, IsAway)
        /\ RAdd(RAdd(derived.scan.homeWin, derived.scan.draw), derived.scan.awayWin)
                = GridMass(grid.matrix)
        /\ RLt(Zero, GridMass(grid.matrix)) =>
            /\ derived.markets.homeWin =
                    RDiv(MassWhere(grid.matrix, IsHome), GridMass(grid.matrix))
            /\ derived.markets.draw =
                    RDiv(MassWhere(grid.matrix, IsDraw), GridMass(grid.matrix))
            /\ derived.markets.awayWin =
                    RDiv(MassWhere(grid.matrix, IsAway), GridMass(grid.matrix))

\* a grid with mass in each of the three classes has been derived
C9_Witness ==
    /\ derived # Null
    /\ RLt(Zero, derived.markets.homeWin)
    /\ RLt(Zero, derived.markets.draw)
    /\ RLt(Zero, derived.markets.awayWin)
    /\ derived.markets.homeWin # derived.scan.homeWin

BothScore(h, a) == h > 0 /\ a > 0
HomeToNil(h, a) == h > 0 /\ a = 0
AwayToNil(h, a) == a > 0 /\ h = 0
AwayBlank(h, a) == a = 0
HomeBlank(h, a) == h = 0

\* C10: bttsYes is the mass of h > 0 and a > 0, winToNilHome of h > 0 and
\* a = 0, winToNilAway of a > 0 and h = 0, cleanSheetHome of a = 0,
\* cleanSheetAway of h = 0; each clean sheet is its win-to-nil plus P(0-0),
\* and bttsYes + winToNilHome + winToNilAway + P(0-0) is the grid mass
C10_Partition ==
    derived # Null =>
        /\ derived.markets.bttsYes = MassWhere(grid.matrix, BothScore)
        /\ derived.markets.winToNilHome = MassWhere(grid.matrix, HomeToNil)
        /\ derived.markets.winToNilAway = MassWhere(grid.matrix, AwayToNil)
        /\ derived.markets.cleanSheetHome = MassWhere(grid.matrix, AwayBlank)
        /\ derived.markets.cleanSheetAway = MassWhere(grid.matrix, HomeBlank)
        /\ derived.markets.cleanSheetHome =
                RAdd(derived.markets.winToNilHome, grid.matrix[0][0])
        /\ derived.markets.cleanSheetAway =
                RAdd(derived.markets.winToNilAway, grid.matrix[0][0])
        /\ RAdd(RAdd(derived.markets.bttsYes, derived.markets.winToNilHome),
                RAdd(derived.markets.winToNilAway, grid.matrix[0][0]))
                = GridMass(grid.matrix)

\* the full grid has been derived: mass on 0-0, on both win-to-nil sets and
\* on the both-score cells
C10_Witness ==
    /\ derived # Null
    /\ RLt(Zero, grid.matrix[0][0])
    /\ RLt(Zero, derived.markets.winToNilHome)
    /\ RLt(Zero, derived.markets.winToNilAway)
    /\ RLt(Zero, derived.markets.bttsYes)

\* the sum of exactTotals[t] over the totals t above the line
TotalsAbove(exactTotals, line) ==
    RSum([i \in 1..Cardinality(DOMAIN exactTotals) |->
            IF (i - 1) * line[2] > line[1]
            THEN exactTotals[i - 1] ELSE Zero])

\* C11: for every standard line L, overs[L] is the mass of the cells with
\* h + a > L (strictly), which is the sum of exactTotals[t] over the totals
\* t > L; overs is non-increasing in L, and overs[0.5] is the grid mass less
\* P(0-0).  A line has a key in overs exactly when the grid has a cell above
\* it (the callers read a missing key as 0).
C11_OversAreTheMassAbove ==
    derived # Null =>
        /\ \A l \in LineSet :
            /\ OversAt(derived.markets, l) =
                    MassWhere(grid.matrix, LAMBDA h, a : (h + a) * l[2] > l[1])
            /\ OversAt(derived.markets, l) =
                    TotalsAbove(derived.markets.exactTotals, l)
            /\ l \in DOMAIN derived.markets.overs
                    <=> 2 * (Cardinality(DOMAIN grid.matrix) - 1) * l[2] > l[1]
        /\ \A i \in 1..(Len(STANDARD_LINES) - 1) :
                RLe(OversAt(derived.markets, STANDARD_LINES[i + 1]),
                    OversAt(derived.markets, STANDARD_LINES[i]))
        /\ OversAt(derived.markets, <<1, 2>>) =
                RSub(GridMass(grid.matrix), grid.matrix[0][0])

\* a grid has been derived with mass on 0-0 and overs that fall strictly
\* from 0.5 to 1.5 to 2.5 to 3.5
C11_Witness ==
    /\ derived # Null
    /\ RLt(Zero, grid.matrix[0][0])
    /\ RLt(Zero, OversAt(derived.markets, <<7, 2>>))
    /\ RLt(OversAt(derived.markets, <<7, 2>>), OversAt(derived.markets, <<5, 2>>))
    /\ RLt(OversAt(derived.markets, <<5, 2>>), OversAt(derived.markets, <<3, 2>>))
    /\ RLt(OversAt(derived.markets, <<3, 2>>), OversAt(derived.markets, <<1, 2>>))

\* ------------------------------------------------------------------------
\* The functions of the script as functions of their arguments
\* ------------------------------------------------------------------------

\* longest sequence of probabilities passed to applyMargin
MaxProbs == 3

\* the elements of the sequences passed to applyMargin
ProbVals == { <<-1, 2>>, Zero, <<1, 4>>, <<1, 2>> }

\* the margins passed to applyMargin
MarginArgs == { <<-5, 1>>, Zero, <<5, 1>>, <<10, 1>> }

\* the probabilities passed to getOdds
PriceVals ==
    { <<-1, 2>>, Zero, <<1, 20000>>, <<1, 10000>>, <<1, 5000>>, <<1, 2>>, One }

ApplyMarginArgs ==
    {[fn |-> "applyMargin", probs |-> p, marginPct |-> m] :
        p \in UNION {[1..n -> ProbVals] : n \in 0..MaxProbs}, m \in MarginArgs}

GetOddsArgs == {[fn |-> "getOdds", prob |-> p] : p \in PriceVals}

\* the mass a half's matrix puts on cell (h, a) when it is not 0: equal for
\* (h, a) and (a, h)
HalfMass(h, a) == <<Abs(h - a) + 1, 128>>

HalfOn(S) ==
    [h \in 0..GridGoals |->
        [a \in 0..GridGoals |-> IF <<h, a>> \in S THEN HalfMass(h, a) ELSE Zero]]

\* the cells of at most two goals
HalfCells == {c \in GridCells : c[1] + c[2] <= 2}

\* joints of the halves: no cell, one cell of HalfCells, all cells but one
\* of HalfCells, all cells
HalfGrids ==
    {jointOf(HalfOn(S)) :
        S \in {{}, GridCells} \cup {{c} : c \in HalfCells}
                \cup {GridCells \ {c} : c \in HalfCells}}

HtftArgs ==
    {[fn |-> "deriveHalfTimeFullTime", jointH1 |-> g1, jointH2 |-> g2] :
        g1 \in HalfGrids, g2 \in HalfGrids}

ScoresArgs ==
    {[fn |-> "deriveFinalScoreByGoals", jointDist |-> g] : g \in Grids \cup HalfGrids}

\* appState.jointFull at the time of a call of deriveDoubleChanceGoals or
\* derive1X2Goals with the markets of g: g itself, as renderAllMarkets calls
\* them, or the joint of another calculation
JointsBeside(g) == {g, jointOf(GridOn(GridCells)), jointOf(GridOn({}))}

\* joints of at most two cells, and the joint of all cells
ShownGrids ==
    {jointOf(GridOn(S)) :
        S \in {T \in SUBSET GridCells : Cardinality(T) <= 2 \/ T = GridCells}}

DcGoalsArgs ==
    {[fn |-> "deriveDoubleChanceGoals", markets |-> deriveMarkets(g),
      appState |-> [jointFull |-> g]] : g \in Grids}
    \cup UNION {{[fn |-> "deriveDoubleChanceGoals", markets |-> deriveMarkets(g),
                  appState |-> [jointFull |-> j]] : j \in JointsBeside(g)} :
                    g \in ShownGrids}

ResultGoalsArgs ==
    UNION {{[fn |-> "derive1X2Goals", markets |-> deriveMarkets(g),
             appState |-> [jointFull |-> j]] : j \in JointsBeside(g)} :
                g \in ShownGrids}

\* largest maxGoals passed to computePoissonPMF
PmfGoals == 8

\* the rates passed to computePoissonPMF: those Math.exp is tabulated for
LambdaArgs == {ExpTable[j][1] : j \in 1..Len(ExpTable)}

\* the zero-inflation weights passed to computePoissonPMF
PiArgs == { Zero, <<1, 4>>, <<1, 2>>, One, <<3, 2>> }

PmfArgs ==
    {[fn |-> "computePoissonPMF", lambda |-> l, maxGoals |-> g, pi |-> p] :
        l \in LambdaArgs, g \in 0..PmfGoals, p \in PiArgs}

\* largest maxGoals passed to computeJointDistribution
JointGoals == 2

\* the rates and weights passed to computeJointDistribution
JointLambdas == { <<-1, 1>>, Zero, <<1, 2>>, <<2, 1>> }

JointPis == { Zero, <<1, 2>> }

JointArgs ==
    {[fn |-> "computeJointDistribution", lambdaH |-> lh, lambdaA |-> la,
      piH |-> ph, piA |-> pa, maxGoals |-> g] :
        lh \in JointLambdas, la \in JointLambdas, ph \in JointPis, pa \in JointPis,
        g \in 0..JointGoals}

\* appState.htftData of the calls of renderListMarkets
HtftShown ==
    deriveHalfTimeFullTime(jointOf(HalfOn(GridCells)),
                           jointOf(HalfOn(GridCells \ {<<0, 0>>})))

\* the compound data of appState when renderListMarkets renders the
\* markets of g: all null at the first render, later those of a joint g
CompoundsOf(g, first) ==
    IF first
    THEN [htftData |-> Null, scoresByGoals |-> Null, dcGoals |-> Null,
          result1X2Goals |-> Null]
    ELSE [htftData |-> HtftShown,
          scoresByGoals |-> Obj(deriveFinalScoreByGoals(g)),
          dcGoals |-> Obj(deriveDoubleChanceGoals(deriveMarkets(g), [jointFull |-> g])),
          result1X2Goals |-> Obj(derive1X2Goals(deriveMarkets(g), [jointFull |-> g]))]

\* the contexts renderAllMarkets renders in
Contexts ==
    {[context |-> "summary", isFullTime |-> TRUE],
     [context |-> "tab-full", isFullTime |-> TRUE],
     [context |-> "tab-h1", isFullTime |-> FALSE]}

RenderArgs ==
    {[fn |-> "renderListMarkets", markets |-> deriveMarkets(x[1]),
      context |-> x[2].context, margin |-> x[3], isFullTime |-> x[2].isFullTime,
      appState |-> CompoundsOf(x[1], x[4]), maxGoals |-> GridGoals] :
        x \in {y \in ShownGrids \X Contexts \X MarginArgs \X BOOLEAN :
                    ~y[4] \/ y[2].context = "tab-full"}}

RenderArgs2 ==
    {[fn |-> "renderMarkets", markets |-> deriveMarkets2(g),
      context |-> c.context, margin |-> m, isFullTime |-> c.isFullTime,
      maxGoals |-> GridGoals] :
        g \in ShownGrids, c \in Contexts, m \in MarginArgs}

\* the cells selected when updateSelectionPanel is called
SelSets == {{}, {<<0, 0>>}, {<<1, 0>>, <<0, 1>>}, GridCells}

SelectionArgs ==
    {[fn |-> "updateSelectionPanel", selSet |-> s,
      probabilityMap |-> deriveMarkets(g).map, margin |-> m] :
        g \in ShownGrids, s \in SelSets, m \in MarginArgs}

SelectionArgs2 ==
    {[fn |-> "updateSelectionPanel2", homeGoals |-> c[1], awayGoals |-> c[2],
      prob |-> p, margin |-> m] :
        c \in GridCells, p \in PriceVals \ {<<-1, 2>>}, m \in MarginArgs}

\* the calls of SpecCalls; variant 2 has the functions of its lines only
CallArgs(v) ==
    ApplyMarginArgs \cup GetOddsArgs \cup PmfArgs \cup JointArgs
        \cup (IF v = 1
              THEN HtftArgs \cup ScoresArgs \cup DcGoalsArgs \cup ResultGoalsArgs
                   \cup RenderArgs \cup SelectionArgs
              ELSE RenderArgs2 \cup SelectionArgs2)

InitCalls ==
    /\ variant \in {1, 2}
    /\ loaded = FALSE
    /\ fields = PageFields
    /\ appState = AppState0(variant)
    /\ dom = Dom0
    /\ selections = Selections0(variant)
    /\ calls = <<>>
    /\ edits = 0
    /\ grid = Null
    /\ derived = Null
    /\ args \in CallArgs(variant)
    /\ returned = Null

\* the call of args returns value
Returns(value) ==
    /\ returned = Null
    /\ returned' = [value |-> value]
    /\ UNCHANGED <<selections, variant, loaded, fields, appState, dom, calls, edits, grid,
                   derived, args>>

CallApplyMargin ==
    /\ args.fn = "applyMargin"
    /\ Returns(applyMargin(args.probs, args.marginPct))

CallGetOdds ==
    /\ args.fn = "getOdds"
    /\ Returns(getOdds(args.prob))

CallDeriveHalfTimeFullTime ==
    /\ args.fn = "deriveHalfTimeFullTime"
    /\ Returns(deriveHalfTimeFullTime(args.jointH1, args.jointH2))

CallDeriveFinalScoreByGoals ==
    /\ args.fn = "deriveFinalScoreByGoals"
    /\ Returns(deriveFinalScoreByGoals(args.jointDist))

CallDeriveDoubleChanceGoals ==
    /\ args.fn = "deriveDoubleChanceGoals"
    /\ Returns(deriveDoubleChanceGoals(args.markets, args.appState))

CallComputePoissonPMF ==
    /\ args.fn = "computePoissonPMF"
    /\ Returns(computePoissonPMF(args.lambda, args.maxGoals, args.pi))

CallComputeJointDistribution ==
    /\ args.fn = "computeJointDistribution"
    /\ Returns(computeJointDistribution(args.lambdaH, args.lambdaA,
                                        args.piH, args.piA, args.maxGoals))

CallDerive1X2Goals ==
    /\ args.fn = "derive1X2Goals"
    /\ Returns(derive1X2Goals(args.markets, args.appState))

CallRenderListMarkets ==
    /\ args.fn = "renderListMarkets"
    /\ Returns(listRows(args.appState, args.markets, args.context, args.margin,
                        args.isFullTime, args.maxGoals))

CallRenderMarkets2 ==
    /\ args.fn = "renderMarkets"
    /\ Returns(marketsRows2(args.markets, args.context, args.margin,
                            args.isFullTime, args.maxGoals))

CallUpdateSelectionPanel ==
    /\ args.fn = "updateSelectionPanel"
    /\ Returns(updateSelectionPanel(args.selSet, args.probabilityMap, args.margin))

CallUpdateSelectionPanel2 ==
    /\ args.fn = "updateSelectionPanel2"
    /\ Returns(updateSelectionPanel2(args.homeGoals, args.awayGoals, args.prob,
                                     args.margin))

NextCalls ==
    \/ CallRenderListMarkets
    \/ CallRenderMarkets2
    \/ CallUpdateSelectionPanel
    \/ CallUpdateSelectionPanel2
    \/ CallApplyMargin
    \/ CallGetOdds
    \/ CallDeriveHalfTimeFullTime
    \/ CallDeriveFinalScoreByGoals
    \/ CallDeriveDoubleChanceGoals
    \/ CallDerive1X2Goals
    \/ CallComputePoissonPMF
    \/ CallComputeJointDistribution

SpecCalls == InitCalls /\ [][NextCalls]_vars

\* the call of fn has returned
Called(fn) == args # Null /\ returned # Null /\ args.fn = fn

\* 1 + marginPct / 100
TargetOf(marginPct) == R(100 * marginPct[2] + marginPct[1], 100 * marginPct[2])

\* C12: for non-negative probabilities of sum # 0 and marginPct >= 0 the
\* outputs of applyMargin sum to 1 + marginPct/100, each output is
\* probs[i] / sum(probs) * (1 + marginPct/100), and with marginPct = 0 and an
\* input of sum 1 the output is the input
C12_MarginScalesToTarget ==
    (/\ Called("applyMargin")
     /\ \A i \in 1..Len(args.probs) : RLe(Zero, args.probs[i])
     /\ RSum(args.probs) # Zero
     /\ RLe(Zero, args.marginPct)) =>
        /\ Len(returned.value) = Len(args.probs)
        /\ RSum(returned.value) = TargetOf(args.marginPct)
        /\ \A i \in 1..Len(args.probs) :
                RMul(returned.value[i], RSum(args.probs)) =
                    RMul(args.probs[i], TargetOf(args.marginPct))
        /\ (args.marginPct = Zero /\ RSum(args.probs) = One) =>
                returned.value = args.probs

\* a margin of 10 has been applied to three probabilities, not all equal,
\* whose sum is not 1
C12_Witness ==
    /\ Called("applyMargin")
    /\ args.marginPct = <<10, 1>>
    /\ Len(args.probs) = 3
    /\ \A i \in 1..3 : RLt(Zero, args.probs[i])
    /\ args.probs[1] # args.probs[2]
    /\ RSum(args.probs) # One
    /\ RSum(returned.value) = <<11, 10>>

\* C13: when the input of applyMargin sums to 0, the output has the length
\* of the input and every element of it is 0, whatever marginPct is
C13_ZeroSumGivesZeros ==
    (Called("applyMargin") /\ RSum(args.probs) = Zero) =>
        /\ Len(returned.value) = Len(args.probs)
        /\ \A i \in 1..Len(args.probs) : returned.value[i] = Zero

\* a margin has been applied to three probabilities that are all 0
C13_Witness ==
    /\ Called("applyMargin")
    /\ args.probs = <<Zero, Zero, Zero>>
    /\ args.marginPct = <<10, 1>>
    /\ returned.value = <<Zero, Zero, Zero>>

\* C14: getOdds(p) is 1/p when p > 0.0001 and the sentinel 0 otherwise, at
\* p = 0.0001, at 0 and below 0 too; it is never negative and never above
\* 10000
C14_PriceOrSentinel ==
    Called("getOdds") =>
        /\ RLt(<<1, 10000>>, args.prob) => RMul(returned.value, args.prob) = One
        /\ ~RLt(<<1, 10000>>, args.prob) => returned.value = Zero
        /\ RLe(Zero, returned.value)
        /\ RLt(returned.value, <<10000, 1>>)

\* getOdds has returned the sentinel at the boundary p = 0.0001
C14_Witness ==
    /\ Called("getOdds")
    /\ args.prob = <<1, 10000>>
    /\ returned.value = Zero

HtftKeySeq == <<"H-H", "H-D", "H-A", "D-H", "D-D", "D-A", "A-H", "A-D", "A-A">>

\* the sum of the nine values of an htft object
HtftSum(htft) == RSum([i \in 1..Len(HtftKeySeq) |-> htft[HtftKeySeq[i]]])

\* C15: for two joints of equal grid size, the nine htft values of
\* deriveHalfTimeFullTime sum to (grid mass of jointH1) x (grid mass of
\* jointH2): the sum is at most 1 and short of 1 by 1 - massH1 * massH2
C15_HtftSumIsProductOfMasses ==
    Called("deriveHalfTimeFullTime") =>
        /\ DOMAIN returned.value.htft = HtftKeys
        /\ HtftSum(returned.value.htft) =
                RMul(GridMass(args.jointH1.matrix), GridMass(args.jointH2.matrix))
        /\ RLe(HtftSum(returned.value.htft), One)
        /\ RSub(One, HtftSum(returned.value.htft)) =
                RSub(One, RMul(GridMass(args.jointH1.matrix),
                               GridMass(args.jointH2.matrix)))

\* HT/FT has been derived from two full grids of mass < 1, with a side that
\* leads at half time and loses
C15_Witness ==
    /\ Called("deriveHalfTimeFullTime")
    /\ \A c \in GridCells : RLt(Zero, args.jointH1.matrix[c[1]][c[2]])
    /\ \A c \in GridCells : RLt(Zero, args.jointH2.matrix[c[1]][c[2]])
    /\ RLt(GridMass(args.jointH1.matrix), One)
    /\ RLt(Zero, returned.value.htft["H-A"])
    /\ RLt(HtftSum(returned.value.htft), One)

\* C16: deriveFinalScoreByGoals has a bucket for every total t in 0..2G;
\* bucket t holds exactly the scorelines h-a with h + a = t, each once and
\* with its matrix probability; a bucket is in non-increasing order of
\* probability, scorelines of equal probability in the order of h
C16_ScoresByGoalsPartition ==
    Called("deriveFinalScoreByGoals") =>
        /\ DOMAIN returned.value = 0..(2 * (Cardinality(DOMAIN args.jointDist.matrix) - 1))
        /\ \A t \in DOMAIN returned.value :
            /\ \A i \in 1..Len(returned.value[t]) :
                /\ returned.value[t][i].score[1] + returned.value[t][i].score[2] = t
                /\ returned.value[t][i].score[1] \in DOMAIN args.jointDist.matrix
                /\ returned.value[t][i].score[2] \in DOMAIN args.jointDist.matrix
                /\ returned.value[t][i].prob =
                        args.jointDist.matrix[returned.value[t][i].score[1]]
                                             [returned.value[t][i].score[2]]
            /\ \A i, j \in 1..Len(returned.value[t]) :
                i < j =>
                    /\ RLe(returned.value[t][j].prob, returned.value[t][i].prob)
                    /\ returned.value[t][i].prob = returned.value[t][j].prob =>
                            returned.value[t][i].score[1] < returned.value[t][j].score[1]
        /\ \A h, a \in DOMAIN args.jointDist.matrix :
            /\ Cardinality({i \in 1..Len(returned.value[h + a]) :
                                returned.value[h + a][i].score = <<h, a>>}) = 1
            /\ \A t \in DOMAIN returned.value :
                    t # h + a =>
                        \A i \in 1..Len(returned.value[t]) :
                            returned.value[t][i].score # <<h, a>>

\* bucket 2 holds 0-2 and 2-0, of equal probability, in the order of h, and
\* after them 1-1, of smaller probability > 0, which the loops push between
\* the two
C16_Witness ==
    /\ Called("deriveFinalScoreByGoals")
    /\ Len(returned.value[2]) = 3
    /\ returned.value[2][1].score = <<0, 2>>
    /\ returned.value[2][2].score = <<2, 0>>
    /\ returned.value[2][3].score = <<1, 1>>
    /\ returned.value[2][1].prob = returned.value[2][2].prob
    /\ RLt(returned.value[2][3].prob, returned.value[2][2].prob)
    /\ RLt(Zero, returned.value[2][3].prob)

\* over + under of a double-chance bucket
BothSides(e) == RAdd(e.over, e.under)

\* C17: in deriveDoubleChanceGoals every cell adds its probability to
\* exactly two of 1X, X2 and 12, on the same side of the line in both: for
\* every line the six values sum to twice the grid mass, 1X.over + 1X.under
\* is the home-win mass plus the draw mass (before any normalisation), and
\* the three overs sum to twice the mass of the cells with h + a > L
C17_TwoBucketsPerCell ==
    Called("deriveDoubleChanceGoals") =>
        \A l \in LineSet :
            /\ RAdd(RAdd(BothSides(returned.value[l]["1X"]),
                         BothSides(returned.value[l]["X2"])),
                    BothSides(returned.value[l]["12"]))
                    = RMul(<<2, 1>>, GridMass(args.appState.jointFull.matrix))
            /\ BothSides(returned.value[l]["1X"])
                    = RAdd(MassWhere(args.appState.jointFull.matrix, IsHome),
                           MassWhere(args.appState.jointFull.matrix, IsDraw))
            /\ BothSides(returned.value[l]["X2"])
                    = RAdd(MassWhere(args.appState.jointFull.matrix, IsDraw),
                           MassWhere(args.appState.jointFull.matrix, IsAway))
            /\ BothSides(returned.value[l]["12"])
                    = RAdd(MassWhere(args.appState.jointFull.matrix, IsHome),
                           MassWhere(args.appState.jointFull.matrix, IsAway))
            /\ RAdd(RAdd(returned.value[l]["1X"].over, returned.value[l]["X2"].over),
                    returned.value[l]["12"].over)
                    = RMul(<<2, 1>>,
                           MassWhere(args.appState.jointFull.matrix,
                                     LAMBDA h, a : (h + a) * l[2] > l[1]))

\* double chance + goals has been derived from a grid with home wins, draws
\* and away wins on both sides of the line 1.5
C17_Witness ==
    /\ Called("deriveDoubleChanceGoals")
    /\ \A k \in {"1X", "X2", "12"} :
        /\ RLt(Zero, returned.value[<<3, 2>>][k].over)
        /\ RLt(Zero, returned.value[<<3, 2>>][k].under)
    /\ RLt(Zero, args.appState.jointFull.matrix[0][0])
    /\ RLt(Zero, args.appState.jointFull.matrix[0][1])
    /\ RLt(Zero, args.appState.jointFull.matrix[2][1])
    /\ RLt(Zero, args.appState.jointFull.matrix[1][2])

\* the sum of the entries probs[0..maxGoals] of a distribution
EntrySum(probs) == RSum([i \in 1..Cardinality(DOMAIN probs) |-> probs[i - 1]])

RECURSIVE Fact(_)
\* k! as the product 1 * 2 * ... * k
Fact(k) == IF k <= 0 THEN 1 ELSE k * Fact(k - 1)

\* the standard Poisson mass P_k of rate lambda
PoissonMass(lambda, k) ==
    RDiv(RMul(ExpNeg(lambda), RPow(lambda, k)), <<Fact(k), 1>>)

\* C19: with P_k the standard Poisson masses of lambda, computePoissonPMF
\* returns entry[0] = pi + (1 - pi) * P_0 and entry[k] = (1 - pi) * P_k for
\* k > 0; with pi = 0 the entries are the P_k; for a Poisson rate
\* (lambda >= 0) a larger pi gives an entry[0] that is not smaller and
\* entries [k > 0] that are not larger
C19_ZeroInflation ==
    Called("computePoissonPMF") =>
        /\ returned.value.probs[0] =
                RAdd(args.pi, RMul(RSub(One, args.pi), PoissonMass(args.lambda, 0)))
        /\ \A k \in 1..args.maxGoals :
                returned.value.probs[k] =
                    RMul(RSub(One, args.pi), PoissonMass(args.lambda, k))
        /\ args.pi = Zero =>
                \A k \in 0..args.maxGoals :
                    returned.value.probs[k] = PoissonMass(args.lambda, k)
        /\ RLe(Zero, args.lambda) =>
                \A pi2 \in PiArgs :
                    RLe(args.pi, pi2) =>
                        /\ RLe(returned.value.probs[0],
                               computePoissonPMF(args.lambda, args.maxGoals, pi2).probs[0])
                        /\ \A k \in 1..args.maxGoals :
                                RLe(computePoissonPMF(args.lambda, args.maxGoals, pi2).probs[k],
                                    returned.value.probs[k])

\* a distribution of rate 2 inflated by 1/2 has been built past the
\* factorial cache: more mass on 0 and less on 1 than the Poisson masses
C19_Witness ==
    /\ Called("computePoissonPMF")
    /\ args.lambda = <<2, 1>>
    /\ args.pi = <<1, 2>>
    /\ args.maxGoals = 8
    /\ RLt(PoissonMass(args.lambda, 0), returned.value.probs[0])
    /\ RLt(returned.value.probs[1], PoissonMass(args.lambda, 1))
    /\ RLt(Zero, returned.value.probs[8])

\* distHome and distAway of the call of computeJointDistribution in args
DistHome == computePoissonPMF(args.lambdaH, args.maxGoals, args.piH)
DistAway == computePoissonPMF(args.lambdaA, args.maxGoals, args.piA)

KeyOf(c1, c2) ==
    (IF c1[1] > c1[2] THEN "H" ELSE IF c1[1] = c1[2] THEN "D" ELSE "A")
        \o "-" \o
    (IF c1[1] + c2[1] > c1[2] + c2[2] THEN "H"
     ELSE IF c1[1] + c2[1] = c1[2] + c2[2] THEN "D" ELSE "A")

\* the k-th cell of a matrix of side n, row by row
CellAt(k, n) == <<(k - 1) \div n, (k - 1) % n>>

\* the mass of the second-half scores c2 that give key after c1, with a
\* full-time total above the line (over) or not above it, every cell visited
SecondHalfMass(c1, matrixH2, n, key, line, over) ==
    RSum([j \in 1..(n * n) |->
            IF /\ KeyOf(c1, CellAt(j, n)) = key
               /\ ((c1[1] + c1[2] + CellAt(j, n)[1] + CellAt(j, n)[2]) * line[2]
                        > line[1]) = over
            THEN matrixH2[CellAt(j, n)[1]][CellAt(j, n)[2]]
            ELSE Zero])

\* the mass of the pairs of scores that give key, on one side of the line,
\* every cell of both matrices (of side n) visited
PairMass(matrixH1, matrixH2, n, key, line, over) ==
    RSum([i \in 1..(n * n) |->
            RMul(matrixH1[CellAt(i, n)[1]][CellAt(i, n)[2]],
                 SecondHalfMass(CellAt(i, n), matrixH2, n, key, line, over))])

\* C21: in deriveHalfTimeFullTime, for every standard line L and every key,
\* htftGoals[L][key].over + .under is htft[key], over is the mass of the
\* pairs of half scores of that key whose full-time total is > L, and the
\* values are those that a visit of every cell, of mass 0 too, gives
C21_HtftGoalsSplitHtft ==
    Called("deriveHalfTimeFullTime") =>
        \A l \in LineSet : \A key \in HtftKeys :
            /\ RAdd(returned.value.htftGoals[l][key].over,
                    returned.value.htftGoals[l][key].under)
                    = returned.value.htft[key]
            /\ returned.value.htftGoals[l][key].over =
                    PairMass(args.jointH1.matrix, args.jointH2.matrix,
                             Cardinality(DOMAIN args.jointH1.matrix), key, l, TRUE)
            /\ returned.value.htftGoals[l][key].under =
                    PairMass(args.jointH1.matrix, args.jointH2.matrix,
                             Cardinality(DOMAIN args.jointH1.matrix), key, l, FALSE)

\* HT/FT has been derived from a first half with a cell of mass 0 and a full
\* second half, with draw-draw on both sides of the line 2.5
C21_Witness ==
    /\ Called("deriveHalfTimeFullTime")
    /\ \E c \in GridCells : args.jointH1.matrix[c[1]][c[2]] = Zero
    /\ RLt(Zero, args.jointH1.matrix[1][1])
    /\ \A c \in GridCells : RLt(Zero, args.jointH2.matrix[c[1]][c[2]])
    /\ RLt(Zero, returned.value.htftGoals[<<5, 2>>]["D-D"].over)
    /\ RLt(Zero, returned.value.htftGoals[<<5, 2>>]["D-D"].under)
    /\ RLt(Zero, returned.value.htftGoals[<<5, 2>>]["H-A"].over)

\* the matrix that a markets object of variant 1 was derived from, read
\* from its map of scorelines
MatrixOf(markets) ==
    [h \in 0..((Cardinality(DOMAIN markets.exactTotals) - 1) \div 2) |->
        [a \in 0..((Cardinality(DOMAIN markets.exactTotals) - 1) \div 2) |->
            markets.map[<<h, a>>]]]

\* C22: deriveDoubleChanceGoals and derive1X2Goals are functions of their
\* argument alone: whatever appState holds, a call with the same markets
\* returns the same result, and the result is that of the joint matrix the
\* markets were derived from
C22_CompoundOfArgumentAlone ==
    /\ Called("deriveDoubleChanceGoals") =>
        /\ \A g \in Grids :
                deriveDoubleChanceGoals(args.markets, [jointFull |-> g]) = returned.value
        /\ \A l \in LineSet :
                BothSides(returned.value[l]["1X"]) =
                    RAdd(MassWhere(MatrixOf(args.markets), IsHome),
                         MassWhere(MatrixOf(args.markets), IsDraw))
    /\ Called("derive1X2Goals") =>
        /\ \A g \in Grids :
                derive1X2Goals(args.markets, [jointFull |-> g]) = returned.value
        /\ \A l \in LineSet :
                BothSides(returned.value[l]["Home"]) =
                    MassWhere(MatrixOf(args.markets), IsHome)

\* ------------------------------------------------------------------------
\* The prices of the rows
\* ------------------------------------------------------------------------

\* the six rows of the 1X2 + Goals card that a call of renderListMarkets
\* has written
SixRows == returned.value.resultGoals

ResultGoalsPriced ==
    /\ Called("renderListMarkets")
    /\ args.context = "tab-full"
    /\ args.appState.result1X2Goals # Null

\* C24: the adjusted probabilities of the six result-and-goals outcomes at
\* line 2.5 (Home, Draw, Away, each with Over and Under) sum to
\* 1 + margin/100, and each is the outcome's share of the six, times
\* 1 + margin/100
C24_SixOutcomesPricedTogether ==
    ResultGoalsPriced =>
        LET whole == RSum([i \in 1..6 |-> SixRows[i].prob])
        IN  whole # Zero =>
                /\ RSum([i \in 1..6 |-> SixRows[i].adjusted]) = TargetOf(args.margin)
                /\ \A i \in 1..6 :
                        SixRows[i].adjusted =
                            RMul(RDiv(SixRows[i].prob, whole), TargetOf(args.margin))

\* the rows a call of renderListMarkets or renderMarkets has written
RowsWritten ==
    UNION {{returned.value[f][i] : i \in 1..Len(returned.value[f])} :
                f \in DOMAIN returned.value}

\* odds that are 0, or a number that is at most 1 / p
NotLongerThanFair(odds, p) ==
    odds = Zero \/ (odds # Infinity /\ RLe(odds, RDiv(One, p)))

\* C25: with a margin >= 0, the odds shown for an outcome of probability
\* p > 0 (a row of the markets of either variant, the exact goals tables
\* and the selected correct scores included) are 0 or at most 1 / p
C25_MarginNeverLengthens ==
    /\ (/\ Called("renderListMarkets") \/ Called("renderMarkets")
        /\ RLe(Zero, args.margin)) =>
            \A r \in RowsWritten :
                RLt(Zero, r.prob) => NotLongerThanFair(r.odds, r.prob)
    /\ (/\ Called("updateSelectionPanel") \/ Called("updateSelectionPanel2")
        /\ RLe(Zero, args.margin)
        /\ ~returned.value.hidden
        /\ RLt(Zero, returned.value.content.prob)) =>
            NotLongerThanFair(returned.value.content.market,
                              returned.value.content.prob)

\* the same of the rows of variant 1 and of the selection panels only
PricesOfVariant1NotLonger ==
    (args # Null /\ args.fn # "renderMarkets") => C25_MarginNeverLengthens

\* ------------------------------------------------------------------------
\* Properties of the selections
\* ------------------------------------------------------------------------

\* the selection panel of period p is hidden
PanelHidden(p) == dom[PanelId[p]].written /\ dom[PanelId[p]].hidden

\* C26: in variant 1, once a render has succeeded, the selection panel of
\* each period is hidden exactly when selections of that period is empty;
\* a click on cell (h, a) of period p toggles (h, a) in selections[p] and
\* leaves the rest of selections as it was; clearSelection(p) empties
\* selections[p] only; a calculation or a margin change alters no selection
C26_SelectionsPerPeriod ==
    /\ [](appState.jointFull # Null =>
            \A p \in Periods : PanelHidden(p) <=> selections[p] = {})
    /\ [][\A p \in Periods :
            /\ \A key \in ClickCells :
                    \/ /\ selections'[p] =
                                IF key \in selections[p] THEN selections[p] \ {key}
                                ELSE selections[p] \cup {key}
                       /\ \A q \in Periods \ {p} : selections'[q] = selections[q]
                    \/ ~ClickCell(p, key)
            /\ \/ /\ selections'[p] = {}
                  /\ \A q \in Periods \ {p} : selections'[q] = selections[q]
               \/ ~ClearSelection(p)]_vars
    /\ [][\/ selections' = selections
          \/ ~(\/ ClickCalculate
               \/ \E id \in MarginFields : \E value \in MarginVals[id] :
                        MarginInput(id, value))]_vars

\* a margin change has re-rendered the page while two cells of the first
\* half were selected: its panel shows the two at the new margin, its grid
\* marks them, and the panels of the other periods are hidden
C26_Witness ==
    /\ appState.jointFull # Null
    /\ calls = <<>>
    /\ selections.h1 = ClickCells
    /\ selections.full = {}
    /\ selections.h2 = {}
    /\ ~dom["selection-panel-h1"].hidden
    /\ dom["selection-panel-h1"].content.count = 2
    /\ dom["cs-grid-h1"].selected = ClickCells
    /\ dom["selection-panel-h2"].hidden
    /\ dom["selection-panel-full"].hidden
    /\ fields.marginH1 = <<10, 1>>
    /\ dom["markets-h1"].margin = <<10, 1>>
    /\ dom["selection-panel-h1"].content.market =
            getOdds(inflate(dom["selection-panel-h1"].content.prob, <<10, 1>>))

====
